---- MODULE Spec2Model ----
(***************************************************************************)
(* Weather-lookup demo: fetchWithRetry (timeout, cancellation, exponential *)
(* backoff, HTTP status classification), the TTL cache and the ETag cache, *)
(* and the API clients built on them (getWeatherByCity, getCitiesPaginated,*)
(* searchCities, getCityById).                                             *)
(*                                                                         *)
(* Execution is a single-threaded event loop: one action is one task       *)
(* together with the microtasks (await continuations) it triggers.         *)
(***************************************************************************)
EXTENDS Integers, Sequences, FiniteSets, TLC

VARIABLES
    now,            \* Date.now(), in ms
    weatherCache,   \* weatherCache.cache : key -> [value, expiresAt]
    etagCache,      \* etagCache.cache : url -> [etag, data, timestamp]
    call,           \* per caller: the client call it has in progress
    batch,          \* the getWeatherForMultipleCities call in progress
    ttlCache,       \* a CacheWithTTL object: its cache, key -> [value, expiresAt]
    cacheTtlMs,     \* ... and its ttlMs
    returned,       \* what the latest method call on a cache object returned
    lastSet,        \* per key: the latest set(key, ..) since the latest clear()
    state,          \* the page's state object: currentAbortController, infiniteScroll
    view,           \* what the page shows, and which call serves which handler
    debounced       \* a function wrapped by debounce: its timer, its invocations

\* the cache objects used on their own, and the bookkeeping about them
unitVars == <<ttlCache, cacheTtlMs, returned, lastSet>>

\* the page
uiVars == <<state, view, debounced>>

vars == <<now, weatherCache, etagCache, call, batch, ttlCache, cacheTtlMs, returned,
          lastSet, state, view, debounced>>

----------------------------------------------------------------------------
(* Bounds of the model *)

MaxRetries == 3         \* largest retries option passed to fetchWithRetry directly
MaxTicks == 3           \* the clock stops after MaxTicks ticks
MaxSearches == 3        \* handleSearch makes at most MaxSearches lookups
MaxPages == 2           \* loadMoreCities asks for the pages up to MaxPages
MaxCalls == 3           \* a debounced function is called at most MaxCalls times

(* Program constants *)

DEFAULT_TTL_MS == 60000
DEFAULT_BACKOFF_MS == 500
WEATHER_TTL_MS == 600000
WEATHER_RETRIES == 2
WEATHER_BACKOFF_MS == 500
CITIES_RETRIES == 2
CITIES_BACKOFF_MS == 500
SEARCH_RETRIES == 1
CITY_BY_ID_RETRIES == 1
DEFAULT_LIMIT == 10
SEARCH_DEBOUNCE_MS == 500
THEME_DEBOUNCE_MS == 150

\* one tick of the clock: half of the weather TTL, so that an entry is seen
\* before, exactly at and after its expiry time
TickMs == WEATHER_TTL_MS \div 2

Callers == {"a", "b"}

\* retries values a direct caller of fetchWithRetry passes (a negative
\* value makes the while loop run zero times)
RetriesSet == (0 - 1)..MaxRetries
BackoffSet == {100, DEFAULT_BACKOFF_MS}

\* HTTP statuses the servers answer with
Statuses == {200, 299, 304, 400, 401, 403, 404, 429, 500, 503}

\* city names as sequences of characters
CityNames == { <<"M", "s">>, <<"m", "S">>, <<"O">> }

\* JSON bodies: weather objects, city arrays (sequences of city ids)
WeatherPayloads == {"w1", "w2"}
CityLists == { <<1>>, <<1, 2>> }
Pages == {1, 2}

\* absent values: null statusCode / code / header
NoStatus == 0
NoCode == ""
NoHeader == ""

----------------------------------------------------------------------------
(* Error taxonomy *)

\* the text of NetworkError('...') at the two places that report a cancellation
MsgCancelled == "request was cancelled"

\* cause: the message of the wrapped error when the message template embeds
\* one; named: the number of attempts the message names (0: names none)
MkError(name, msg, code, statusCode, isNet, isBus, cause, named) ==
    [name |-> name, message |-> msg, code |-> code, statusCode |-> statusCode,
     isNetworkError |-> isNet, isBusinessError |-> isBus, cause |-> cause,
     named |-> named]

\* new NetworkError(message, statusCode = null)
NetworkError(msg, statusCode, cause, named) ==
    MkError("NetworkError", msg, NoCode, statusCode, TRUE, FALSE, cause, named)

\* new BusinessError(message, code = null, statusCode = null)
BusinessError(msg, code, statusCode) ==
    MkError("BusinessError", msg, code, statusCode, FALSE, TRUE, "", 0)

\* errors of the platform: fetch rejecting on abort (DOMException AbortError),
\* fetch rejecting on a connectivity failure (TypeError), response.json()
\* rejecting on a malformed body (SyntaxError)
RawError(name, msg) ==
    MkError(name, msg, NoCode, NoStatus, FALSE, FALSE, "", 0)
AbortError == RawError("AbortError", "The user aborted a request.")
FetchTypeError == RawError("TypeError", "Failed to fetch")
JsonSyntaxError == RawError("SyntaxError", "Unexpected token in JSON")
UndefinedReadError == RawError("TypeError", "Cannot read properties of undefined")

\* lastError before any assignment (undefined)
NoError == RawError("undefined", "")

\* error.message.includes(<the word of MsgCancelled>)
MessageIncludesCancelled(err) ==
    err.message = MsgCancelled \/ err.cause = MsgCancelled

----------------------------------------------------------------------------
(* Pure helpers *)

\* String.prototype.toLowerCase over the alphabet of CityNames
LowerChar(ch) ==
    CASE ch = "M" -> "m"
      [] ch = "S" -> "s"
      [] ch = "O" -> "o"
      [] OTHER -> ch

ToLowerCase(s) == [i \in 1..Len(s) |-> LowerChar(s[i])]

\* CacheKey without toLowerCase
CacheKeyCaseSensitive(cityName) == <<"weather_">> \o cityName

\* `weather_${cityName.toLowerCase()}`
CacheKey(cityName) == <<"weather_">> \o ToLowerCase(cityName)

\* CitiesUrl without the page size
CitiesUrlWithoutLimit(page, limit) == <<"cities", page, 0>>

\* `${MOCK_API_URL}/cities?_page=${page}&_limit=${limit}`
CitiesUrl(page, limit) == <<"cities", page, limit>>

\* Math.pow(2, n)
RECURSIVE Pow2(_)
Pow2(n) == IF n <= 0 THEN 1 ELSE 2 * Pow2(n - 1)

\* response.ok
ResponseOk(status) == status >= 200 /\ status <= 299

\* parseInt of a header made of decimal digits
DigitVal(d) ==
    CASE d = "0" -> 0 [] d = "1" -> 1 [] d = "2" -> 2 [] d = "3" -> 3
      [] d = "4" -> 4 [] d = "5" -> 5 [] d = "6" -> 6 [] d = "7" -> 7
      [] d = "8" -> 8 [] OTHER -> 9

RECURSIVE ParseInt(_)
ParseInt(s) ==
    IF Len(s) = 0 THEN 0
    ELSE 10 * ParseInt(SubSeq(s, 1, Len(s) - 1)) + DigitVal(s[Len(s)])

----------------------------------------------------------------------------
(* CacheWithTTL, as operators on the Map it holds *)

\* set that keeps an entry already stored
TTLSetIfAbsent(cache, key, value, ttlMs, t) ==
    [k \in DOMAIN cache \cup {key} |->
        IF k \in DOMAIN cache THEN cache[k]
        ELSE [value |-> value, expiresAt |-> t + ttlMs]]

\* CacheWithTTL.set
TTLSet(cache, key, value, ttlMs, t) ==
    [k \in DOMAIN cache \cup {key} |->
        IF k = key THEN [value |-> value, expiresAt |-> t + ttlMs]
        ELSE cache[k]]

\* get without the test of the expiry time
TTLGetValueIgnoringExpiry(cache, key, t) ==
    IF key \notin DOMAIN cache THEN "" ELSE cache[key].value

\* CacheWithTTL.get: the value returned ("" stands for null) ...
TTLGetValue(cache, key, t) ==
    IF key \notin DOMAIN cache THEN ""
    ELSE IF t > cache[key].expiresAt THEN ""
    ELSE cache[key].value

\* ... and the Map it leaves (an expired entry is deleted)
TTLGetStore(cache, key, t) ==
    IF key \in DOMAIN cache /\ t > cache[key].expiresAt
    THEN [k \in DOMAIN cache \ {key} |-> cache[k]]
    ELSE cache

\* null and undefined
Null == ""
Undefined == "undefined"

\* has as Map.has
TTLHasKey(cache, key, t) == key \in DOMAIN cache

\* CacheWithTTL.has: this.get(key) !== null (get does the eviction)
TTLHas(cache, key, t) == TTLGetValue(cache, key, t) # Null

\* CacheWithTTL.clear, ETagCache.clear: the Map after this.cache.clear()
MapClear(cache) == [k \in {} |-> 0]

\* rounding down
FloorSec(ms) == ms \div 1000

\* Math.ceil(remainingMs / 1000)
CeilSec(ms) == IF ms % 1000 = 0 THEN ms \div 1000 ELSE ms \div 1000 + 1

\* getCacheInfo answering null (found tells null from an object)
NoInfo == [found |-> FALSE, isExpired |-> FALSE, remainingMs |-> 0,
           remainingSec |-> 0]

\* getCacheInfo counting an entry as expired from its expiry time on
TTLGetCacheInfoExpiredAtExpiry(cache, key, t) ==
    IF key \notin DOMAIN cache THEN NoInfo
    ELSE LET isExpired == t >= cache[key].expiresAt
             remainingMs == IF isExpired THEN 0 ELSE cache[key].expiresAt - t
         IN  [found |-> TRUE, isExpired |-> isExpired,
              remainingMs |-> remainingMs,
              remainingSec |-> CeilSec(remainingMs)]

\* CacheWithTTL.getCacheInfo
TTLGetCacheInfo(cache, key, t) ==
    IF key \notin DOMAIN cache THEN NoInfo
    ELSE LET isExpired == t > cache[key].expiresAt
             remainingMs == IF isExpired THEN 0 ELSE cache[key].expiresAt - t
         IN  [found |-> TRUE, isExpired |-> isExpired,
              remainingMs |-> remainingMs,
              remainingSec |-> CeilSec(remainingMs)]

(* ETagCache, as operators on the Map it holds *)

\* set that empties the Map first
ETagSetAlone(cache, url, etag, data, t) ==
    [u \in {url} |-> [etag |-> etag, data |-> data, timestamp |-> t]]

\* ETagCache.set
ETagSet(cache, url, etag, data, t) ==
    [u \in DOMAIN cache \cup {url} |->
        IF u = url THEN [etag |-> etag, data |-> data, timestamp |-> t]
        ELSE cache[u]]

\* ETagCache.has
ETagHas(cache, url) == url \in DOMAIN cache

\* ETagCache.getETag (NoHeader stands for null)
ETagGetETag(cache, url) ==
    IF url \in DOMAIN cache THEN cache[url].etag ELSE NoHeader

EmptyMap == [k \in {} |-> 0]

\* ETagCache.getData (EmptyMap stands for null: spreading null adds no field)
ETagGetData(cache, url) ==
    IF url \in DOMAIN cache THEN cache[url].data ELSE EmptyMap

----------------------------------------------------------------------------
(* The state of one client call *)

\* the Response a fetch resolved with: status and the headers the clients read
NoResponse == [status |-> NoStatus, etag |-> NoHeader, link |-> NoHeader,
               total |-> <<>>]

Pending == [state |-> "pending", error |-> NoError, value |-> EmptyMap]
Resolved(v) == [state |-> "resolved", error |-> NoError, value |-> v]
Rejected(err) == [state |-> "rejected", error |-> err, value |-> EmptyMap]

IdleCall ==
    [op |-> "none",
     pc |-> "idle",             \* idle, fetching, parsing, sleeping, done
     \* options of fetchWithRetry
     retries |-> 0, backoffMs |-> 0,
     signal |-> "none",         \* the caller's AbortSignal: none, live, aborted
     ifNoneMatch |-> NoHeader,  \* headers['If-None-Match']
     \* arguments of the client function
     cityName |-> <<>>, ignoreCache |-> FALSE,
     page |-> 0, limit |-> 0, useETag |-> FALSE,
     \* locals of fetchWithRetry
     attempt |-> 0,
     lastError |-> NoError,
     timerArmed |-> FALSE,      \* timeoutId of the current attempt is pending
     response |-> NoResponse,   \* the Response whose body is being read
     \* what fetchWithRetry returned or threw, what the client function did
     fetched |-> Pending,
     outcome |-> Pending,
     \* observations
     gen |-> 0,                 \* flips each time the caller starts a call
     fetchCalls |-> 0,          \* calls of fetch()
     sent |-> 0,                \* requests that went out to the server
     delays |-> <<>>,           \* the sleep(delay) waits, in order
     lastStatus |-> NoStatus,   \* status of the latest response
     only5xx |-> TRUE,          \* every failure so far was a 5xx response
     businessAt |-> 0,          \* fetch call answered 401, 403, 404 or 429
     liveAtStart |-> FALSE,     \* the signal was not aborted when called
     cancelledAt |-> "",        \* pc at which the caller's signal fired
     timedOut |-> FALSE]        \* the attempt's own timer fired

\* the pair of caches and the call record an operation step produces
World(r, w, e) == [c |-> r, w |-> w, e |-> e]

----------------------------------------------------------------------------
(* Client functions: what they do with the result of fetchWithRetry *)

MsgCityNotFound == "city not found"
MsgApiKey == "API key error"
MsgRateLimitExceeded == "API rate limit exceeded"
MsgWeatherLoad == "weather load failed: "
MsgCitiesLoad == "cities load failed: "
MsgSearch == "city search failed: "
MsgCityIdNotFound == "city with this id not found"

\* WeatherRemap without the branch for 429
WeatherRemapNoRateLimit(error) ==
    IF MessageIncludesCancelled(error) \/ error.name = "AbortError"
    THEN NetworkError(MsgCancelled, NoStatus, "", 0)
    ELSE IF error.code = "NOT_FOUND" \/ error.statusCode = 404
    THEN BusinessError(MsgCityNotFound, "CITY_NOT_FOUND", NoStatus)
    ELSE IF error.code = "AUTH_ERROR" \/ error.statusCode = 401
    THEN BusinessError(MsgApiKey, "API_KEY_ERROR", NoStatus)
    ELSE IF error.isNetworkError
    THEN error
    ELSE NetworkError(MsgWeatherLoad, NoStatus, error.message, 0)

\* getWeatherByCity, the catch block: the error it throws
WeatherRemap(error) ==
    IF MessageIncludesCancelled(error) \/ error.name = "AbortError"
    THEN NetworkError(MsgCancelled, NoStatus, "", 0)
    ELSE IF error.code = "NOT_FOUND" \/ error.statusCode = 404
    THEN BusinessError(MsgCityNotFound, "CITY_NOT_FOUND", NoStatus)
    ELSE IF error.code = "AUTH_ERROR" \/ error.statusCode = 401
    THEN BusinessError(MsgApiKey, "API_KEY_ERROR", NoStatus)
    ELSE IF error.statusCode = 429
    THEN BusinessError(MsgRateLimitExceeded, "RATE_LIMIT_EXCEEDED", NoStatus)
    ELSE IF error.isNetworkError
    THEN error
    ELSE NetworkError(MsgWeatherLoad, NoStatus, error.message, 0)

\* getCitiesPaginated, the catch block
CitiesRemap(error) ==
    IF error.isNetworkError THEN error
    ELSE IF error.isBusinessError THEN error
    ELSE NetworkError(MsgCitiesLoad, NoStatus, error.message, 0)

\* SearchRemap re-throwing a BusinessError as it is
SearchRemapKeepingBusiness(error) ==
    IF error.isNetworkError \/ error.isBusinessError THEN error
    ELSE NetworkError(MsgSearch, NoStatus, error.message, 0)

\* searchCities, the catch block
SearchRemap(error) ==
    IF error.isNetworkError THEN error
    ELSE NetworkError(MsgSearch, NoStatus, error.message, 0)

\* getCityById, the catch block
CityByIdRemap(error) ==
    IF error.code = "NOT_FOUND"
    THEN BusinessError(MsgCityIdNotFound, "CITY_NOT_FOUND", NoStatus)
    ELSE error

\* the continuation of `await fetchWithRetry(...)` when it throws
ClientCatch(r, w, e, error) ==
    LET thrown ==
            CASE r.op = "getWeatherByCity" -> WeatherRemap(error)
              [] r.op = "getCitiesPaginated" -> CitiesRemap(error)
              [] r.op = "searchCities" -> SearchRemap(error)
              [] r.op = "getCityById" -> CityByIdRemap(error)
              [] OTHER -> error
    IN  World([r EXCEPT !.pc = "done", !.fetched = Rejected(error),
                        !.outcome = Rejected(thrown)], w, e)

\* PageResult tagged as served from the cache
PageResultTaggedCached(r, resp, data) ==
    [data |-> data, page |-> r.page, limit |-> r.limit,
     total |-> IF resp.total # <<>> THEN ParseInt(resp.total) ELSE Len(data),
     hasMore |-> IF resp.link # NoHeader THEN resp.link = "next" ELSE FALSE,
     fromCache |-> TRUE, cacheHit |-> TRUE]

\* getCitiesPaginated: the PageResult assembled from a response
PageResult(r, resp, data) ==
    [data |-> data, page |-> r.page, limit |-> r.limit,
     total |-> IF resp.total # <<>> THEN ParseInt(resp.total) ELSE Len(data),
     hasMore |-> IF resp.link # NoHeader THEN resp.link = "next" ELSE FALSE,
     fromCache |-> FALSE, cacheHit |-> FALSE]

\* { ...cachedData, fromCache: true, cacheHit: true }
SpreadCacheHit(cachedData) ==
    [f \in DOMAIN cachedData \cup {"fromCache", "cacheHit"} |->
        IF f \in {"fromCache", "cacheHit"} THEN TRUE ELSE cachedData[f]]

\* the continuation of `await fetchWithRetry(...)` when it returns
\* {data, headers, status}
ClientReturn(r, w, e, resp, data) ==
    LET ret == Resolved([data |-> data, headers |-> resp, status |-> resp.status])
        url == CitiesUrl(r.page, r.limit)
        done(v) == [r EXCEPT !.pc = "done", !.fetched = ret,
                             !.response = NoResponse,
                             !.outcome = Resolved(v)]
    IN  CASE r.op = "getWeatherByCity" ->
                World(done([payload |-> data, fromCache |-> FALSE]),
                      TTLSet(w, CacheKey(r.cityName), data, WEATHER_TTL_MS, now),
                      e)
          [] r.op = "getCitiesPaginated" ->
                IF resp.status = 304
                THEN World(done(SpreadCacheHit(ETagGetData(e, url))), w, e)
                ELSE LET result == PageResult(r, resp, data)
                     IN  World(done(result), w,
                               IF r.useETag /\ resp.etag # NoHeader
                               THEN ETagSet(e, url, resp.etag, result, now)
                               ELSE e)
          [] r.op = "searchCities" ->
                World(done([data |-> data, count |-> Len(data)]), w, e)
          [] r.op = "getCityById" ->
                World(done([data |-> data]), w, e)
          [] OTHER ->
                World(done(ret.value), w, e)

----------------------------------------------------------------------------
(* fetchWithRetry *)

MsgServerError == "server error <status>"
MsgNotFound == "resource not found (404)"
MsgAuth == "authorization error (<status>)"
MsgRateLimit == "rate limit exceeded (429)"
MsgHttp == "HTTP <status>"
MsgAfterAttempts == "request failed after <n> attempts: "

\* Classify with 403 left out of the authorization branch
ClassifyForbiddenAsNetwork(status) ==
    IF status >= 500 THEN NetworkError(MsgServerError, status, "", 0)
    ELSE IF status = 404 THEN BusinessError(MsgNotFound, "NOT_FOUND", NoStatus)
    ELSE IF status = 401
    THEN BusinessError(MsgAuth, "AUTH_ERROR", NoStatus)
    ELSE IF status = 429 THEN BusinessError(MsgRateLimit, "RATE_LIMIT", status)
    ELSE NetworkError(MsgHttp, status, "", 0)

\* Classify with 404 falling through to the generic branch
ClassifyNotFoundAsNetwork(status) ==
    IF status >= 500 THEN NetworkError(MsgServerError, status, "", 0)
    ELSE IF status = 401 \/ status = 403
    THEN BusinessError(MsgAuth, "AUTH_ERROR", NoStatus)
    ELSE IF status = 429 THEN BusinessError(MsgRateLimit, "RATE_LIMIT", status)
    ELSE NetworkError(MsgHttp, status, "", 0)

\* the error thrown for a response with !response.ok
Classify(status) ==
    IF status >= 500 THEN NetworkError(MsgServerError, status, "", 0)
    ELSE IF status = 404 THEN BusinessError(MsgNotFound, "NOT_FOUND", NoStatus)
    ELSE IF status = 401 \/ status = 403
    THEN BusinessError(MsgAuth, "AUTH_ERROR", NoStatus)
    ELSE IF status = 429 THEN BusinessError(MsgRateLimit, "RATE_LIMIT", status)
    ELSE NetworkError(MsgHttp, status, "", 0)

\* IsCancellation that looks at the caller's signal only
IsCancellationBySignal(signal, error) == signal = "aborted"

\* signal?.aborted || error.name === 'AbortError'
IsCancellation(signal, error) ==
    signal = "aborted" \/ error.name = "AbortError"

\* error.isBusinessError: thrown at once, never retried
IsNotRetried(error) == error.isBusinessError

\* CanRetry without the test of the attempts left
CanRetryIgnoringBudget(attempt, retries, error) == error.isNetworkError

\* CanRetry without the test of the kind of error
CanRetryAnyError(attempt, retries, error) == attempt < retries

\* attempt < retries && error.isNetworkError
CanRetry(attempt, retries, error) ==
    attempt < retries /\ error.isNetworkError

\* BackoffDelay growing linearly
BackoffDelayLinear(backoffMs, attempt) == backoffMs * (attempt + 1)

\* backoffMs * Math.pow(2, attempt)
BackoffDelay(backoffMs, attempt) == backoffMs * Pow2(attempt)

\* the loop condition
LoopContinues(attempt, retries) == attempt <= retries

\* the statements after the loop: the error the call fails with
AfterLoopError(lastError, retries) ==
    IF lastError = NoError
    THEN UndefinedReadError     \* lastError.isNetworkError of undefined
    ELSE IF lastError.isNetworkError \/ lastError.isBusinessError
    THEN lastError
    ELSE NetworkError(MsgAfterAttempts, NoStatus, lastError.message,
                      retries + 1)

\* the catch block without clearTimeout(timeoutId)
CatchBlockLeavingTimer(r, w, e, error) ==
    LET r1 == [r EXCEPT !.lastError = error, !.response = NoResponse]
    IN  IF IsCancellation(r.signal, error)
        THEN ClientCatch(r1, w, e, NetworkError(MsgCancelled, NoStatus, "", 0))
        ELSE IF IsNotRetried(error)
        THEN ClientCatch(r1, w, e, error)
        ELSE IF CanRetry(r.attempt, r.retries, error)
        THEN World([r1 EXCEPT !.pc = "sleeping",
                              !.delays = Append(@, BackoffDelay(r.backoffMs,
                                                                r.attempt))],
                   w, e)
        ELSE ClientCatch(r1, w, e, AfterLoopError(error, r.retries))

\* the catch block of one attempt
CatchBlock(r, w, e, error) ==
    LET r1 == [r EXCEPT !.timerArmed = FALSE, !.lastError = error,
                        !.response = NoResponse]
    IN  IF IsCancellation(r.signal, error)
        THEN ClientCatch(r1, w, e, NetworkError(MsgCancelled, NoStatus, "", 0))
        ELSE IF IsNotRetried(error)
        THEN ClientCatch(r1, w, e, error)
        ELSE IF CanRetry(r.attempt, r.retries, error)
        THEN World([r1 EXCEPT !.pc = "sleeping",
                              !.delays = Append(@, BackoffDelay(r.backoffMs,
                                                                r.attempt))],
                   w, e)
        ELSE ClientCatch(r1, w, e, AfterLoopError(error, r.retries))

\* CombinedAborted without the check of signal.aborted
CombinedAbortedNever(signal) == FALSE

\* combineAbortSignals(signal, controller.signal).aborted right after the
\* call: the caller's signal is already aborted (the fresh controller's
\* signal never is)
CombinedAborted(signal) == signal = "aborted"

\* the loop head and the start of an attempt: arm the timer, combine the
\* signals, call fetch.  With the combined signal already aborted fetch
\* rejects without sending anything.
BeginAttempt(r, w, e) ==
    IF LoopContinues(r.attempt, r.retries)
    THEN LET r1 == [r EXCEPT !.timerArmed = TRUE, !.fetchCalls = @ + 1]
         IN  IF CombinedAborted(r.signal)
             THEN CatchBlock(r1, w, e, AbortError)
             ELSE World([r1 EXCEPT !.pc = "fetching", !.sent = @ + 1], w, e)
    ELSE ClientCatch(r, w, e, AfterLoopError(r.lastError, r.retries))

----------------------------------------------------------------------------
(* Actions *)

Signals == {"none", "live", "aborted"}

\* the callers that run the per-city lookups of a batch, by position
Slots == <<"a", "b">>

NoBatch ==
    [state |-> "none",      \* none, running, resolved, rejected
     cities |-> <<>>,       \* the argument
     pending |-> {},        \* callers whose lookup has not settled
     entries |-> <<>>,      \* position -> the settled promise at it
     order |-> <<>>,        \* positions in the order their promises settled
     result |-> <<>>,       \* what the returned promise resolved with
     error |-> NoError]     \* what the returned promise rejected with

\* getWeatherByCity(city, options)
\*     .then(data => ({ success: true, city, data }))
\*     .catch(error => ({ success: false, city, error: error.message }))
BatchEntry(city, outcome) ==
    IF outcome.state = "resolved"
    THEN Resolved([success |-> TRUE, city |-> city, data |-> outcome.value])
    ELSE Resolved([success |-> FALSE, city |-> city,
                   error |-> outcome.error.message])

\* Promise.all filling the array in the order the promises settle
PromiseAllInSettlingOrder(entries, order) ==
    [i \in 1..Len(order) |-> entries[order[i]].value]

\* Promise.all(promises) with every promise resolved: the value of promise
\* i at index i
PromiseAll(entries, order) ==
    [i \in 1..Len(order) |-> entries[i].value]

\* the promise of the lookup run by caller c settles; Promise.all rejects
\* with the first rejection and resolves when every promise has resolved
SettleSlot(b, c, outcome) ==
    LET i == CHOOSE j \in 1..Len(b.cities) : Slots[j] = c
        entries == [j \in DOMAIN b.entries \cup {i} |->
                        IF j = i THEN BatchEntry(b.cities[i], outcome)
                        ELSE b.entries[j]]
        order == Append(b.order, i)
        b1 == [b EXCEPT !.pending = @ \ {c}, !.entries = entries,
                        !.order = order]
    IN  IF b.state # "running" THEN b1
        ELSE IF entries[i].state = "rejected"
        THEN [b1 EXCEPT !.state = "rejected", !.error = entries[i].error]
        ELSE IF Len(order) = Len(b.cities)
        THEN [b1 EXCEPT !.state = "resolved",
                        !.result = PromiseAll(entries, order)]
        ELSE b1

(* The page: its state object, and what its handlers do when the call they
   await settles *)

\* const state = {currentAbortController: null, infiniteScroll: {...}};
\* a controller is named by the caller whose search it was made for
InitialState ==
    [currentAbortController |-> "null",
     infiniteScroll |-> [currentPage |-> 0, isLoading |-> FALSE,
                         hasMore |-> TRUE, isVisible |-> FALSE]]

\* the page before any handler ran: nothing shown; searchOf numbers the
\* handleSearch invocation a caller's lookup belongs to (0: none), started
\* counts the invocations that made a lookup, loads holds the callers whose
\* request was made by loadMoreCities
InitialView ==
    [searchOf |-> [c \in Callers |-> 0], started |-> 0,
     shown |-> [seq |-> 0, kind |-> "none"], loads |-> {}]

Page(st, vw) == [state |-> st, view |-> vw]

\* error.message.includes('не найден')
MessageIncludesNotFound(err) ==
    err.message \in {MsgCityNotFound, MsgNotFound, MsgCityIdNotFound}

\* handleSearch from the return of `await getWeatherByCity(...)` on:
\* displayWeather, or the catch block (nothing for a cancelled request,
\* showEmpty, showError), then finally
HandleSearchSettles(pg, c, outcome) ==
    LET seq == pg.view.searchOf[c]
        shown ==
            IF outcome.state = "resolved" THEN [seq |-> seq, kind |-> "weather"]
            ELSE IF MessageIncludesCancelled(outcome.error) THEN pg.view.shown
            ELSE IF \/ outcome.error.code = "CITY_NOT_FOUND"
                    \/ MessageIncludesNotFound(outcome.error)
            THEN [seq |-> seq, kind |-> "empty"]
            ELSE [seq |-> seq, kind |-> "error"]
    IN  Page([pg.state EXCEPT !.currentAbortController = "null"],
             [pg.view EXCEPT !.shown = shown, !.searchOf[c] = 0])

\* loadMoreCities from the return of `await getCitiesPaginated(...)` on:
\* currentPage and hasMore on success, then finally
LoadMoreCitiesSettles(pg, c, r) ==
    LET scroll == pg.state.infiniteScroll
        scroll1 ==
            IF r.outcome.state = "resolved"
            THEN [scroll EXCEPT !.currentPage = r.page,
                                !.hasMore = r.outcome.value.hasMore]
            ELSE scroll
    IN  Page([pg.state EXCEPT !.infiniteScroll =
                                  [scroll1 EXCEPT !.isLoading = FALSE]],
             [pg.view EXCEPT !.loads = @ \ {c}])

\* the page after the call r of caller c went on
Settled(pg, c, r) ==
    IF r.pc # "done" THEN pg
    ELSE IF pg.view.searchOf[c] > 0 THEN HandleSearchSettles(pg, c, r.outcome)
    ELSE IF c \in pg.view.loads THEN LoadMoreCitiesSettles(pg, c, r)
    ELSE pg

Apply(c, world) ==
    /\ call' = [call EXCEPT ![c] = world.c]
    /\ weatherCache' = world.w
    /\ etagCache' = world.e
    /\ batch' = IF c \in batch.pending /\ world.c.pc = "done"
                THEN SettleSlot(batch, c, world.c.outcome)
                ELSE batch
    /\ state' = Settled(Page(state, view), c, world.c).state
    /\ view' = Settled(Page(state, view), c, world.c).view
    /\ UNCHANGED <<debounced, now, unitVars>>

Free(c) == call[c].pc \in {"idle", "done"}

NewCall(c, op, retries, backoffMs, sig) ==
    [IdleCall EXCEPT !.op = op, !.retries = retries, !.backoffMs = backoffMs,
                     !.signal = sig, !.liveAtStart = (sig = "live"),
                     !.gen = 1 - call[c].gen]

\* fetchWithRetry(url, {retries, backoffMs, signal}) called directly
CallFetchWithRetry(c, retries, backoffMs, sig) ==
    /\ Free(c)
    /\ Apply(c, BeginAttempt(NewCall(c, "fetchWithRetry", retries, backoffMs, sig),
                             weatherCache, etagCache))

\* GetWeatherByCityStart reading the cache whatever ignoreCache says
GetWeatherByCityStartAlwaysReading(c, w, e, cityName, ignoreCache, sig) ==
    LET key == CacheKey(cityName)
        r == [NewCall(c, "getWeatherByCity", WEATHER_RETRIES,
                      WEATHER_BACKOFF_MS, sig)
                 EXCEPT !.cityName = cityName, !.ignoreCache = ignoreCache]
        cached == TTLGetValue(w, key, now)
        w1 == TTLGetStore(w, key, now)
    IN  IF ~ignoreCache /\ cached # ""
        THEN World([r EXCEPT !.pc = "done",
                             !.outcome = Resolved([payload |-> cached,
                                                   fromCache |-> TRUE])],
                   w1, e)
        ELSE BeginAttempt(r, w1, e)

\* GetWeatherByCityStart looking at the signal before the cache
GetWeatherByCityStartCheckingSignal(c, w, e, cityName, ignoreCache, sig) ==
    LET key == CacheKey(cityName)
        r == [NewCall(c, "getWeatherByCity", WEATHER_RETRIES,
                      WEATHER_BACKOFF_MS, sig)
                 EXCEPT !.cityName = cityName, !.ignoreCache = ignoreCache]
        cached == TTLGetValue(w, key, now)
        w1 == TTLGetStore(w, key, now)
    IN  IF sig = "aborted"
        THEN ClientCatch(r, w, e, NetworkError(MsgCancelled, NoStatus, "", 0))
        ELSE IF ~ignoreCache
        THEN IF cached # ""
             THEN World([r EXCEPT !.pc = "done",
                                  !.outcome = Resolved([payload |-> cached,
                                                        fromCache |-> TRUE])],
                        w1, e)
             ELSE BeginAttempt(r, w1, e)
        ELSE BeginAttempt(r, w, e)

\* getWeatherByCity up to its first await, with the caches w and e
GetWeatherByCityStart(c, w, e, cityName, ignoreCache, sig) ==
    LET key == CacheKey(cityName)
        r == [NewCall(c, "getWeatherByCity", WEATHER_RETRIES,
                      WEATHER_BACKOFF_MS, sig)
                 EXCEPT !.cityName = cityName, !.ignoreCache = ignoreCache]
        cached == TTLGetValue(w, key, now)
        w1 == TTLGetStore(w, key, now)
    IN  IF ~ignoreCache
        THEN IF cached # ""
             THEN World([r EXCEPT !.pc = "done",
                                  !.outcome = Resolved([payload |-> cached,
                                                        fromCache |-> TRUE])],
                        w1, e)
             ELSE BeginAttempt(r, w1, e)
        ELSE BeginAttempt(r, w, e)

\* getWeatherByCity(cityName, {ignoreCache, signal})
CallGetWeatherByCity(c, cityName, ignoreCache, sig) ==
    /\ Free(c)
    /\ Apply(c, GetWeatherByCityStart(c, weatherCache, etagCache, cityName,
                                      ignoreCache, sig))

\* the lookups of positions i.. of a batch are launched one after the other,
\* each up to its first await; st holds the calls, the weather cache and the
\* batch as the launches so far left them
RECURSIVE LaunchFrom(_, _, _, _, _)
LaunchFrom(i, st, cities, ignoreCache, sig) ==
    IF i > Len(cities) THEN st
    ELSE LET c == Slots[i]
             world == GetWeatherByCityStart(c, st.w, etagCache, cities[i],
                                            ignoreCache, sig)
             b1 == IF world.c.pc = "done"
                   THEN SettleSlot(st.b, c, world.c.outcome)
                   ELSE [st.b EXCEPT !.pending = @ \cup {c}]
         IN  LaunchFrom(i + 1,
                        [calls |-> [st.calls EXCEPT ![c] = world.c],
                         w |-> world.w, b |-> b1],
                        cities, ignoreCache, sig)

\* getWeatherForMultipleCities(cities, {ignoreCache, signal})
GetWeatherForMultipleCities(cities, ignoreCache, sig) ==
    /\ batch.state = "none"
    /\ \A c \in Callers : Free(c)
    /\ LET b0 == [NoBatch EXCEPT
                    !.state = IF Len(cities) = 0 THEN "resolved" ELSE "running",
                    !.cities = cities]
           st == LaunchFrom(1, [calls |-> call, w |-> weatherCache, b |-> b0],
                            cities, ignoreCache, sig)
       IN  /\ call' = st.calls
           /\ weatherCache' = st.w
           /\ batch' = st.b
           /\ UNCHANGED <<uiVars, now, etagCache, unitVars>>

\* getCitiesPaginated up to its first await, with the caches w and e
GetCitiesPaginatedStart(c, w, e, page, limit, useETag, sig) ==
    LET url == CitiesUrl(page, limit)
        etag == ETagGetETag(e, url)
        r == [NewCall(c, "getCitiesPaginated", CITIES_RETRIES,
                      CITIES_BACKOFF_MS, sig)
                 EXCEPT !.page = page, !.limit = limit, !.useETag = useETag,
                        !.ifNoneMatch =
                             IF useETag /\ ETagHas(e, url) /\ etag # NoHeader
                             THEN etag ELSE NoHeader]
    IN  BeginAttempt(r, w, e)

\* getCitiesPaginated({page, limit, signal, useETag})
CallGetCitiesPaginated(c, page, limit, useETag, sig) ==
    /\ Free(c)
    /\ Apply(c, GetCitiesPaginatedStart(c, weatherCache, etagCache, page,
                                        limit, useETag, sig))

\* searchCities(query, {signal})
CallSearchCities(c, sig) ==
    /\ Free(c)
    /\ Apply(c, BeginAttempt(NewCall(c, "searchCities", SEARCH_RETRIES,
                                     DEFAULT_BACKOFF_MS, sig),
                             weatherCache, etagCache))

\* getCityById(id)
CallGetCityById(c) ==
    /\ Free(c)
    /\ Apply(c, BeginAttempt(NewCall(c, "getCityById", CITY_BY_ID_RETRIES,
                                     DEFAULT_BACKOFF_MS, "none"),
                             weatherCache, etagCache))

\* clearCache()
ClearCache ==
    /\ weatherCache' = EmptyMap
    /\ UNCHANGED <<uiVars, now, etagCache, call, batch, unitVars>>

\* clearETagCache()
ClearETagCache ==
    /\ etagCache' = EmptyMap
    /\ UNCHANGED <<uiVars, now, weatherCache, call, batch, unitVars>>

\* the headers a response carries: ETag, Link, X-Total-Count (only the
\* city list endpoint sends them)
ResponseHeaders(op) ==
    IF op = "getCitiesPaginated"
    THEN { [etag |-> "v1", link |-> "next", total |-> <<"2", "5">>],
           [etag |-> "v2", link |-> "prev", total |-> <<>>],
           [etag |-> NoHeader, link |-> NoHeader, total |-> <<>>] }
    ELSE { [etag |-> NoHeader, link |-> NoHeader, total |-> <<>>] }

\* the JSON bodies an endpoint answers with
Bodies(op) ==
    IF op \in {"getCitiesPaginated", "searchCities"} THEN CityLists
    ELSE WeatherPayloads

\* `await fetch(...)` resolves with a Response
FetchResolves(c, status, hdrs) ==
    /\ call[c].pc = "fetching"
    /\ LET r == [call[c] EXCEPT !.timerArmed = FALSE,     \* clearTimeout
                     !.lastStatus = status,
                     !.only5xx = @ /\ (status >= 500 \/ ResponseOk(status)),
                     !.businessAt = IF status \in {401, 403, 404, 429}
                                    THEN call[c].fetchCalls ELSE @]
       IN  IF ~ResponseOk(status)
           THEN Apply(c, CatchBlock(r, weatherCache, etagCache, Classify(status)))
           ELSE Apply(c, World([r EXCEPT !.pc = "parsing",
                                    !.response = [status |-> status,
                                                  etag |-> hdrs.etag,
                                                  link |-> hdrs.link,
                                                  total |-> hdrs.total]],
                               weatherCache, etagCache))

\* `await fetch(...)` rejects: connectivity failure
FetchRejects(c) ==
    /\ call[c].pc = "fetching"
    /\ Apply(c, CatchBlock([call[c] EXCEPT !.only5xx = FALSE],
                           weatherCache, etagCache, FetchTypeError))

\* the attempt's timer fires: controller.abort(), fetch rejects
TimeoutFires(c) ==
    /\ call[c].pc = "fetching"
    /\ call[c].timerArmed
    /\ Apply(c, CatchBlock([call[c] EXCEPT !.timedOut = TRUE],
                           weatherCache, etagCache, AbortError))

\* the signal of a call in progress fires: a pending fetch or body read
\* rejects, a pending sleep goes on
Aborted(r0, w, e) ==
    LET r == [r0 EXCEPT !.signal = "aborted", !.cancelledAt = r0.pc]
    IN  IF r0.pc = "sleeping"
        THEN World(r, w, e)
        ELSE CatchBlock(r, w, e, AbortError)

\* Abort with one controller behind the signals of all calls
AbortEvery(c) ==
    /\ call[c].signal = "live"
    /\ call[c].pc \in {"fetching", "parsing", "sleeping"}
    /\ call' = [d \in Callers |->
                    IF call[d].pc \in {"fetching", "parsing", "sleeping"}
                    THEN Aborted(call[d], weatherCache, etagCache).c
                    ELSE call[d]]
    /\ UNCHANGED <<uiVars, now, weatherCache, etagCache, batch, unitVars>>

\* the caller aborts the signal it supplied
Abort(c) ==
    /\ call[c].signal = "live"
    /\ call[c].pc \in {"fetching", "parsing", "sleeping"}
    /\ Apply(c, Aborted(call[c], weatherCache, etagCache))

\* the abort event reaches the lookups of positions i.. of a batch in turn
RECURSIVE AbortFrom(_, _)
AbortFrom(i, st) ==
    IF i > Len(st.b.cities) THEN st
    ELSE LET c == Slots[i]
             world == Aborted(st.calls[c], st.w, etagCache)
             b1 == IF world.c.pc = "done"
                   THEN SettleSlot(st.b, c, world.c.outcome)
                   ELSE st.b
         IN  IF c \in st.b.pending
             THEN AbortFrom(i + 1, [calls |-> [st.calls EXCEPT ![c] = world.c],
                                    w |-> world.w, b |-> b1])
             ELSE AbortFrom(i + 1, st)

\* the caller aborts the signal it gave to getWeatherForMultipleCities:
\* every lookup of the batch was given that signal
AbortBatch ==
    /\ batch.state = "running"
    /\ \E c \in batch.pending : call[c].signal = "live"
    /\ LET st == AbortFrom(1, [calls |-> call, w |-> weatherCache,
                               b |-> batch])
       IN  /\ call' = st.calls
           /\ weatherCache' = st.w
           /\ batch' = st.b
           /\ UNCHANGED <<uiVars, now, etagCache, unitVars>>

\* `await response.json()` resolves
BodyParsed(c, data) ==
    /\ call[c].pc = "parsing"
    /\ Apply(c, ClientReturn(call[c], weatherCache, etagCache,
                             call[c].response, data))

\* `await response.json()` rejects: the body is not JSON
BodyInvalid(c) ==
    /\ call[c].pc = "parsing"
    /\ Apply(c, CatchBlock(call[c], weatherCache, etagCache, JsonSyntaxError))

\* `await sleep(delay)` resolves: attempt++ and the next attempt starts
SleepEnds(c) ==
    /\ call[c].pc = "sleeping"
    /\ Apply(c, BeginAttempt([call[c] EXCEPT !.attempt = @ + 1],
                             weatherCache, etagCache))

(* The handlers of the page *)

\* what the search box holds, trimmed: nothing, or the name of a city
SearchInputs == {<<>>, <<"O">>}

\* handleSearch(ignoreCache) with an empty search box: showError, return
HandleSearchEmpty ==
    /\ view' = [view EXCEPT !.shown = [seq |-> 0, kind |-> "error"]]
    /\ UNCHANGED <<now, weatherCache, etagCache, call, batch, unitVars, state,
                   debounced>>

\* handleSearch(ignoreCache) with cityName in the search box, up to its
\* await, and the continuations that run when it gives up control: the
\* previous controller, if there is one, is aborted, a new one is made,
\* the skeleton is shown and getWeatherByCity is called (as caller c);
\* then the lookup just cancelled settles, unless it is asleep between two
\* attempts, and so does the new lookup if the cache served it
HandleSearch(c, cityName, ignoreCache) ==
    /\ Free(c)
    /\ cityName # <<>>
    /\ view.started < MaxSearches
    /\ LET prev == state.currentAbortController
           some == prev # "null"
           w0 == IF some
                 THEN Aborted(call[prev], weatherCache, etagCache)
                 ELSE World(call[c], weatherCache, etagCache)
           seq == view.started + 1
           st1 == [state EXCEPT !.currentAbortController = c]
           vw1 == [view EXCEPT !.started = seq, !.searchOf[c] = seq,
                               !.shown = [seq |-> seq, kind |-> "loading"]]
           new == GetWeatherByCityStart(c, w0.w, w0.e, cityName, ignoreCache,
                                        "live")
           pg1 == IF some THEN Settled(Page(st1, vw1), prev, w0.c)
                  ELSE Page(st1, vw1)
           pg2 == Settled(pg1, c, new.c)
       IN  /\ call' = [d \in Callers |->
                          IF d = c THEN new.c
                          ELSE IF some /\ d = prev THEN w0.c
                          ELSE call[d]]
           /\ weatherCache' = new.w
           /\ etagCache' = new.e
           /\ state' = pg2.state
           /\ view' = pg2.view
           /\ UNCHANGED <<now, batch, unitVars, debounced>>

\* loadMoreCities that starts whenever there is more to load
LoadGuardIgnoringLoading(scroll) == scroll.hasMore

\* loadMoreCities goes on past its first statement
LoadGuard(scroll) == ~(scroll.isLoading \/ ~scroll.hasMore)

\* loadMoreCities() up to its await, on the page pg with the calls calls
\* and the caches w and e; its request is caller c's
LoadMoreCities(c, pg, calls, w, e) ==
    LET scroll == pg.state.infiniteScroll
        nextPage == scroll.currentPage + 1
        world == GetCitiesPaginatedStart(c, w, e, nextPage, DEFAULT_LIMIT,
                                         TRUE, "none")
        pg1 == Page([pg.state EXCEPT !.infiniteScroll.isLoading = TRUE],
                    [pg.view EXCEPT !.loads = @ \cup {c}])
    IN  IF LoadGuard(scroll)
        THEN [pg |-> Settled(pg1, c, world.c),
              calls |-> [calls EXCEPT ![c] = world.c],
              w |-> world.w, e |-> world.e]
        ELSE [pg |-> pg, calls |-> calls, w |-> w, e |-> e]

\* a handler of the list of cities ran and left the page and the calls as
\* in after
Loaded(after) ==
    /\ state' = after.pg.state
    /\ view' = after.pg.view
    /\ call' = after.calls
    /\ weatherCache' = after.w
    /\ etagCache' = after.e
    /\ UNCHANGED <<now, batch, unitVars, debounced>>

\* the click handler of the button that shows and hides the list
ToggleInfiniteScroll(c) ==
    /\ Free(c)
    /\ state.infiniteScroll.currentPage < MaxPages
    /\ LET st1 == [state EXCEPT !.infiniteScroll.isVisible = ~@]
           pg1 == Page(st1, view)
       IN  IF st1.infiniteScroll.isVisible
              /\ st1.infiniteScroll.currentPage = 0
           THEN Loaded(LoadMoreCities(c, pg1, call, weatherCache, etagCache))
           ELSE Loaded([pg |-> pg1, calls |-> call, w |-> weatherCache,
                        e |-> etagCache])

\* the callback of the IntersectionObserver with the sentinel in view
SentinelIntersects(c) ==
    /\ Free(c)
    /\ state.infiniteScroll.currentPage < MaxPages
    /\ state.infiniteScroll.hasMore
    /\ ~state.infiniteScroll.isLoading
    /\ Loaded(LoadMoreCities(c, Page(state, view), call, weatherCache,
                             etagCache))

(* debounce *)

\* debounce(fn, ms) of utils.js ("utils") or of script.js ("script"): the
\* wrapper it returns, with the timers it has pending ([id, left, args]:
\* left is the time until the timer is due) and the arguments fn was
\* invoked with so far; about its callers, the number of calls, the
\* arguments of the latest call and the time since it (counted up to ms);
\* a call that comes ms or more after the previous one begins a burst:
\* the number of bursts, and of invocations of fn since the latest began
Debounce(kind, ms) ==
    [kind |-> kind, ms |-> ms, timeoutId |-> 0, timers |-> {},
     invocations |-> <<>>, calls |-> 0, lastArgs |-> "", idle |-> 0,
     bursts |-> 0, invokedInBurst |-> 0]

\* the arguments given to the wrapper
DebounceArgs == {"x", "y"}

\* the step of the clock that measures the timers
DebounceStepMs == 50

\* clearTimeout(id)
ClearTimeout(timers, id) == {t \in timers : t.id # id}

\* the wrapper without clearTimeout(timeoutId)
WrapperKeepingTimer(d, args) ==
    LET id == d.calls + 1
        begins == d.calls = 0 \/ d.idle >= d.ms
    IN  [d EXCEPT !.timers = @ \cup {[id |-> id, left |-> d.ms, args |-> args]},
                  !.timeoutId = id, !.calls = id, !.lastArgs = args,
                  !.idle = 0,
                  !.bursts = IF begins THEN @ + 1 ELSE @,
                  !.invokedInBurst = IF begins THEN 0 ELSE @]

\* the wrapper: clearTimeout(timeoutId); timeoutId = setTimeout(.., ms)
Wrapper(d, args) ==
    LET id == d.calls + 1
        begins == d.calls = 0 \/ d.idle >= d.ms
    IN  [d EXCEPT !.timers = ClearTimeout(@, d.timeoutId)
                                \cup {[id |-> id, left |-> d.ms, args |-> args]},
                  !.timeoutId = id, !.calls = id, !.lastArgs = args,
                  !.idle = 0,
                  !.bursts = IF begins THEN @ + 1 ELSE @,
                  !.invokedInBurst = IF begins THEN 0 ELSE @]

\* the callback of timer t: fn.apply(this, args) in utils.js;
\* clearTimeout(timeout), then func(...args) in script.js
TimerCallback(d, t) ==
    [d EXCEPT !.timers = IF d.kind = "script"
                         THEN ClearTimeout(@ \ {t}, d.timeoutId)
                         ELSE @ \ {t},
              !.invocations = Append(@, t.args),
              !.invokedInBurst = @ + 1]

\* an event handler calls the wrapper
DebouncedCall(args) ==
    /\ debounced.calls < MaxCalls
    /\ debounced' = Wrapper(debounced, args)
    /\ UNCHANGED <<now, weatherCache, etagCache, call, batch, unitVars, state,
                   view>>

\* time passes while a timer is waiting
TimePasses ==
    /\ \E t \in debounced.timers : t.left > 0
    /\ debounced' =
          [debounced EXCEPT
              !.timers = {[t EXCEPT !.left = IF @ > DebounceStepMs
                                             THEN @ - DebounceStepMs ELSE 0] :
                          t \in debounced.timers},
              !.idle = IF @ + DebounceStepMs < debounced.ms
                       THEN @ + DebounceStepMs ELSE debounced.ms]
    /\ UNCHANGED <<now, weatherCache, etagCache, call, batch, unitVars, state,
                   view>>

\* the event loop runs the callback of a timer that is due; nothing says
\* how soon after it is due, and other handlers may run first
TimerFires ==
    /\ \E t \in debounced.timers :
            /\ t.left = 0
            /\ debounced' = TimerCallback(debounced, t)
    /\ UNCHANGED <<now, weatherCache, etagCache, call, batch, unitVars, state,
                   view>>

(* The cache classes used on their own *)

\* keys and values given to a CacheWithTTL, ttlMs given to its constructor
CacheKeys == {"k1", "k2"}
CacheValues == {"v1", "v2", Null, Undefined}
TtlChoices == {1000, 1500}

\* urls, validators and payloads given to an ETagCache
CacheUrls == {"u1", "u2"}
CacheETags == {"e1", "e2"}

\* what a method returned, by the kind of value: value for get and getETag
\* (and undefined for set and clear), answer for has, info for
\* getCacheInfo, data for getData
NoReturn == [gen |-> 0, op |-> "none", key |-> "", value |-> Undefined,
             answer |-> FALSE, info |-> NoInfo, data |-> <<>>]

\* the method op called with key returns (gen flips at every call)
Return(op, key) == [NoReturn EXCEPT !.gen = 1 - returned.gen, !.op = op,
                                    !.key = key]

Remember(key, entry) ==
    [k \in DOMAIN lastSet \cup {key} |-> IF k = key THEN entry ELSE lastSet[k]]

\* cache.set(key, value) on the CacheWithTTL object
CacheSet(key, value) ==
    /\ ttlCache' = TTLSet(ttlCache, key, value, cacheTtlMs, now)
    /\ returned' = Return("set", key)
    /\ lastSet' = Remember(key, [value |-> value, at |-> now])
    /\ UNCHANGED <<uiVars, now, weatherCache, etagCache, call, batch, cacheTtlMs>>

\* cache.get(key)
CacheGet(key) ==
    /\ ttlCache' = TTLGetStore(ttlCache, key, now)
    /\ returned' = [Return("get", key) EXCEPT
                        !.value = TTLGetValue(ttlCache, key, now)]
    /\ UNCHANGED <<uiVars, now, weatherCache, etagCache, call, batch, cacheTtlMs, lastSet>>

\* cache.has(key)
CacheHas(key) ==
    /\ ttlCache' = TTLGetStore(ttlCache, key, now)
    /\ returned' = [Return("has", key) EXCEPT
                        !.answer = TTLHas(ttlCache, key, now)]
    /\ UNCHANGED <<uiVars, now, weatherCache, etagCache, call, batch, cacheTtlMs, lastSet>>

\* cache.clear()
CacheClear ==
    /\ ttlCache' = MapClear(ttlCache)
    /\ returned' = Return("clear", "")
    /\ lastSet' = EmptyMap
    /\ UNCHANGED <<uiVars, now, weatherCache, etagCache, call, batch, cacheTtlMs>>

\* cache.getCacheInfo(key)
CacheGetCacheInfo(key) ==
    /\ returned' = [Return("getCacheInfo", key) EXCEPT
                        !.info = TTLGetCacheInfo(ttlCache, key, now)]
    /\ UNCHANGED <<uiVars, now, weatherCache, etagCache, call, batch, ttlCache, cacheTtlMs,
                   lastSet>>

\* etagCache.set(url, etag, data)
ETagCacheSet(url, etag, data) ==
    /\ etagCache' = ETagSet(etagCache, url, etag, data, now)
    /\ returned' = Return("set", url)
    /\ lastSet' = Remember(url, [etag |-> etag, data |-> data])
    /\ UNCHANGED <<uiVars, now, weatherCache, call, batch, ttlCache, cacheTtlMs>>

\* etagCache.getETag(url)
ETagCacheGetETag(url) ==
    /\ returned' = [Return("getETag", url) EXCEPT
                        !.value = ETagGetETag(etagCache, url)]
    /\ UNCHANGED <<uiVars, now, weatherCache, etagCache, call, batch, ttlCache, cacheTtlMs,
                   lastSet>>

\* etagCache.getData(url)
ETagCacheGetData(url) ==
    /\ returned' = [Return("getData", url) EXCEPT
                        !.data = ETagGetData(etagCache, url)]
    /\ UNCHANGED <<uiVars, now, weatherCache, etagCache, call, batch, ttlCache, cacheTtlMs,
                   lastSet>>

\* etagCache.has(url)
ETagCacheHas(url) ==
    /\ returned' = [Return("has", url) EXCEPT
                        !.answer = ETagHas(etagCache, url)]
    /\ UNCHANGED <<uiVars, now, weatherCache, etagCache, call, batch, ttlCache, cacheTtlMs,
                   lastSet>>

\* etagCache.clear()
ETagCacheClear ==
    /\ etagCache' = MapClear(etagCache)
    /\ returned' = Return("clear", "")
    /\ lastSet' = EmptyMap
    /\ UNCHANGED <<uiVars, now, weatherCache, call, batch, ttlCache, cacheTtlMs>>

\* time passes, half a second at a time
ClockAdvances ==
    /\ now < MaxTicks * 1000
    /\ now' = now + 500
    /\ UNCHANGED <<uiVars, weatherCache, etagCache, call, batch, unitVars>>

\* time passes
Tick ==
    /\ now < MaxTicks * TickMs
    /\ now' = now + TickMs
    /\ UNCHANGED <<uiVars, weatherCache, etagCache, call, batch, unitVars>>

----------------------------------------------------------------------------
(* Specifications *)

Init ==
    /\ now = 0
    /\ weatherCache = EmptyMap
    /\ etagCache = EmptyMap
    /\ call = [c \in Callers |-> IdleCall]
    /\ batch = NoBatch
    /\ ttlCache = EmptyMap
    /\ cacheTtlMs = DEFAULT_TTL_MS
    /\ returned = NoReturn
    /\ lastSet = EmptyMap
    /\ state = InitialState
    /\ view = InitialView
    /\ debounced = Debounce("utils", SEARCH_DEBOUNCE_MS)

\* a CacheWithTTL object made with one of the TTLs
InitTTL ==
    /\ now = 0
    /\ weatherCache = EmptyMap
    /\ etagCache = EmptyMap
    /\ call = [c \in Callers |-> IdleCall]
    /\ batch = NoBatch
    /\ ttlCache = EmptyMap
    /\ cacheTtlMs \in TtlChoices
    /\ returned = NoReturn
    /\ lastSet = EmptyMap
    /\ state = InitialState
    /\ view = InitialView
    /\ debounced = Debounce("utils", SEARCH_DEBOUNCE_MS)

\* what the network and the timers do to a call in progress
Progress(c) ==
    \/ \E status \in Statuses, hdrs \in ResponseHeaders(call[c].op) :
            FetchResolves(c, status, hdrs)
    \/ FetchRejects(c)
    \/ TimeoutFires(c)
    \/ Abort(c)
    \/ \E data \in Bodies(call[c].op) : BodyParsed(c, data)
    \/ BodyInvalid(c)
    \/ SleepEnds(c)

\* the same with the servers answering with one of the given statuses
ProgressOn(c, statuses) ==
    \/ \E status \in statuses, hdrs \in ResponseHeaders(call[c].op) :
            FetchResolves(c, status, hdrs)
    \/ FetchRejects(c)
    \/ TimeoutFires(c)
    \/ Abort(c)
    \/ \E data \in Bodies(call[c].op) : BodyParsed(c, data)
    \/ BodyInvalid(c)
    \/ SleepEnds(c)

\* fetchWithRetry and the two clients without a cache
Next ==
    \/ \E retries \in RetriesSet, backoffMs \in BackoffSet, sig \in Signals :
            CallFetchWithRetry("a", retries, backoffMs, sig)
    \/ \E sig \in Signals : CallSearchCities("a", sig)
    \/ CallGetCityById("a")
    \/ Progress("a")

Spec == Init /\ [][Next]_vars

\* the weather client and its TTL cache
NextWeather ==
    \/ \E cityName \in CityNames, ignoreCache \in BOOLEAN, sig \in Signals :
            CallGetWeatherByCity("a", cityName, ignoreCache, sig)
    \/ ClearCache
    \/ Tick
    \/ Progress("a")

SpecWeather == Init /\ [][NextWeather]_vars

\* the paginated city client and its ETag cache
NextCities ==
    \/ \E page \in Pages, useETag \in BOOLEAN, sig \in Signals :
            CallGetCitiesPaginated("a", page, DEFAULT_LIMIT, useETag, sig)
    \/ ClearETagCache
    \/ Progress("a")

SpecCities == Init /\ [][NextCities]_vars

\* the paginated city client asked for page 1 of the default size and for
\* page 2 of two sizes
Limits(page) ==
    IF page = 1 THEN {DEFAULT_LIMIT} ELSE {DEFAULT_LIMIT, 2 * DEFAULT_LIMIT}

NextCitiesUrls ==
    \/ \E page \in Pages, useETag \in BOOLEAN, sig \in {"none", "live"} :
       \E limit \in Limits(page) :
            CallGetCitiesPaginated("a", page, limit, useETag, sig)
    \/ ClearETagCache
    \/ ProgressOn("a", {200, 500})

SpecCitiesUrls == Init /\ [][NextCitiesUrls]_vars

\* the batch helper over lists of up to two city names, called once
BatchCities == { <<"M", "s">>, <<"O">> }
BatchLists ==
    {<<>>} \cup { <<x>> : x \in BatchCities }
           \cup { <<x, y>> : x \in BatchCities, y \in BatchCities }
BatchStatuses == {200, 404, 500}

\* single lookups, then one batch
NextBatch ==
    \/ /\ batch.state = "none"
       /\ \E cityName \in BatchCities :
            CallGetWeatherByCity("a", cityName, FALSE, "none")
    \/ \E cities \in BatchLists, ignoreCache \in BOOLEAN,
          sig \in {"none", "live"} :
            GetWeatherForMultipleCities(cities, ignoreCache, sig)
    \/ AbortBatch
    \/ \E c \in Callers :
            \/ \E status \in BatchStatuses,
                  hdrs \in ResponseHeaders(call[c].op) :
                    FetchResolves(c, status, hdrs)
            \/ FetchRejects(c)
            \/ TimeoutFires(c)
            \/ \E data \in Bodies(call[c].op) : BodyParsed(c, data)
            \/ BodyInvalid(c)
            \/ SleepEnds(c)

SpecBatch == Init /\ [][NextBatch]_vars

\* two callers whose calls overlap: lookups of one city by both, pages of
\* the city list by the second
OverlapCity == <<"O">>

NextOverlap ==
    \/ \E c \in Callers, sig \in {"none", "live"} :
            CallGetWeatherByCity(c, OverlapCity, FALSE, sig)
    \/ CallGetCitiesPaginated("b", 1, DEFAULT_LIMIT, TRUE, "none")
    \/ \E c \in Callers : ProgressOn(c, BatchStatuses)

SpecOverlap == Init /\ [][NextOverlap]_vars

\* what the network and the timers do to a call made by the page, which
\* aborts a signal in handleSearch only
PageProgress(c, statuses) ==
    \/ \E status \in statuses, hdrs \in ResponseHeaders(call[c].op) :
            FetchResolves(c, status, hdrs)
    \/ FetchRejects(c)
    \/ TimeoutFires(c)
    \/ \E data \in Bodies(call[c].op) : BodyParsed(c, data)
    \/ BodyInvalid(c)
    \/ SleepEnds(c)

\* the search box and the buttons of the page
NextSearch ==
    \/ \E c \in Callers, cityName \in SearchInputs, ignoreCache \in BOOLEAN :
            HandleSearch(c, cityName, ignoreCache)
    \/ HandleSearchEmpty
    \/ \E c \in Callers : PageProgress(c, BatchStatuses)

SpecSearch == Init /\ [][NextSearch]_vars

\* the list of cities with its button and its sentinel
NextScroll ==
    \/ \E c \in Callers : ToggleInfiniteScroll(c)
    \/ \E c \in Callers : SentinelIntersects(c)
    \/ \E c \in Callers : PageProgress(c, BatchStatuses)

SpecScroll == Init /\ [][NextScroll]_vars

\* a function wrapped by debounce: the search as one types, with 500 ms,
\* and the theme switch, with 150 ms
InitDebounce ==
    /\ now = 0
    /\ weatherCache = EmptyMap
    /\ etagCache = EmptyMap
    /\ call = [c \in Callers |-> IdleCall]
    /\ batch = NoBatch
    /\ ttlCache = EmptyMap
    /\ cacheTtlMs = DEFAULT_TTL_MS
    /\ returned = NoReturn
    /\ lastSet = EmptyMap
    /\ state = InitialState
    /\ view = InitialView
    /\ debounced \in {Debounce("utils", SEARCH_DEBOUNCE_MS),
                       Debounce("script", THEME_DEBOUNCE_MS)}

NextDebounce ==
    \/ \E args \in DebounceArgs : DebouncedCall(args)
    \/ TimePasses
    \/ TimerFires

SpecDebounce == InitDebounce /\ [][NextDebounce]_vars

\* the same with time that goes on and an event loop that gets to run the
\* callback of a timer that stays due
SpecDebounceLive ==
    SpecDebounce /\ WF_vars(TimePasses) /\ WF_vars(TimerFires)

\* a CacheWithTTL object used on its own
NextTTL ==
    \/ \E key \in CacheKeys, value \in CacheValues : CacheSet(key, value)
    \/ \E key \in CacheKeys : CacheGet(key)
    \/ \E key \in CacheKeys : CacheHas(key)
    \/ CacheClear
    \/ \E key \in CacheKeys : CacheGetCacheInfo(key)
    \/ ClockAdvances

SpecTTL == InitTTL /\ [][NextTTL]_vars

\* an ETagCache object used on its own
NextETag ==
    \/ \E url \in CacheUrls, etag \in CacheETags, data \in CityLists :
            ETagCacheSet(url, etag, data)
    \/ \E url \in CacheUrls : ETagCacheGetETag(url)
    \/ \E url \in CacheUrls : ETagCacheGetData(url)
    \/ \E url \in CacheUrls : ETagCacheHas(url)
    \/ ETagCacheClear

SpecETag == Init /\ [][NextETag]_vars

----------------------------------------------------------------------------
(* Properties *)

RECURSIVE SumSeq(_)
SumSeq(q) == IF Len(q) = 0 THEN 0 ELSE q[1] + SumSeq(Tail(q))

CancelledError == NetworkError(MsgCancelled, NoStatus, "", 0)

\* the caller's signal never fired and the attempt's timer never fired
Undisturbed(r) ==
    r.signal # "aborted" /\ r.cancelledAt = "" /\ ~r.timedOut

\* C1: in getCitiesPaginated with useETag, when the conditional request
\* (If-None-Match = the stored validator) is answered 304, the call
\* succeeds at once with the cached page payload tagged fromCache and
\* cacheHit, the content of the first result.
C1_NotModifiedServesCachedPage ==
    \A c \in Callers :
        LET r == call[c]
            url == CitiesUrl(r.page, r.limit)
        IN  (/\ r.op = "getCitiesPaginated"
             /\ r.useETag
             /\ url \in DOMAIN etagCache
             /\ r.ifNoneMatch = etagCache[url].etag
             /\ r.lastStatus = 304)
            => /\ r.pc = "done"
               /\ r.outcome.state = "resolved"
               /\ r.outcome.value =
                     [etagCache[url].data EXCEPT !.fromCache = TRUE,
                                                 !.cacheHit = TRUE]

\* C2: with no cancellation or timeout, 5xx answers on the first k
\* attempts (k <= retries) are each followed by a wait of backoffMs*2^i
\* and a further attempt; a 2xx answer (with a JSON body) on attempt k+1
\* makes the call return after exactly k+1 network attempts and a total
\* wait of backoffMs*(2^k - 1).
C2_BackoffSchedule ==
    \A c \in Callers :
        LET r == call[c]
            k == Len(r.delays)
        IN  (r.op # "none" /\ r.only5xx /\ Undisturbed(r)
                /\ r.lastStatus # NoStatus)
            => /\ \A i \in 1..k : r.delays[i] = r.backoffMs * (2 ^ (i - 1))
               /\ SumSeq(r.delays) = r.backoffMs * ((2 ^ k) - 1)
               /\ k <= r.retries
               /\ r.lastStatus >= 500
                    => /\ r.pc \in {"sleeping", "fetching", "done"}
                       /\ r.pc = "sleeping" => k = r.fetchCalls
                       /\ r.pc = "fetching" => k = r.fetchCalls - 1
                       /\ r.pc = "done" => k = r.retries
               /\ ResponseOk(r.lastStatus)
                    => /\ r.pc \in {"parsing", "done"}
                       /\ r.fetchCalls = k + 1
                       /\ r.sent = k + 1
                       /\ (r.pc = "done" /\ r.lastError.name # "SyntaxError")
                            => r.fetched.state = "resolved"

C2_Witness ==
    \E c \in Callers :
        /\ call[c].pc = "done"
        /\ call[c].fetched.state = "resolved"
        /\ call[c].only5xx
        /\ call[c].retries = 2
        /\ call[c].delays = <<call[c].backoffMs, 2 * call[c].backoffMs>>
        /\ call[c].fetchCalls = 3

\* C3: a response with status 404, 401, 403 or 429 is never retried: the
\* call fails at once with the BusinessError made for that response, no
\* further fetch, no backoff wait after it; when it answers the first
\* attempt exactly one network call is made, whatever retries is.
C3_BusinessNeverRetried ==
    \A c \in Callers :
        LET r == call[c]
        IN  r.businessAt > 0
            => /\ r.pc = "done"
               /\ r.fetched.state = "rejected"
               /\ r.fetched.error.name = "BusinessError"
               /\ r.fetched.error = r.lastError
               /\ r.fetched.error.code =
                    (CASE r.lastStatus = 404 -> "NOT_FOUND"
                       [] r.lastStatus = 429 -> "RATE_LIMIT"
                       [] OTHER -> "AUTH_ERROR")
               /\ r.fetchCalls = r.businessAt
               /\ r.sent = r.businessAt
               /\ Len(r.delays) = r.businessAt - 1

C3_Witness ==
    \E c \in Callers :
        /\ call[c].businessAt = 1
        /\ call[c].retries = 2
        /\ call[c].lastStatus = 404
        /\ call[c].fetchCalls = 1
        /\ call[c].fetched.error.code = "NOT_FOUND"

\* C4: once the caller's signal fires while the call is in progress (an
\* attempt in flight, a body being read, or a backoff wait), the call
\* ends in NetworkError with the cancellation message, never in success
\* or another error, and no later attempt sends a request.
C4_CancellationWins ==
    \A c \in Callers :
        LET r == call[c]
        IN  r.cancelledAt # ""
            => /\ r.pc \in {"sleeping", "done"}
               /\ r.pc = "sleeping" => r.cancelledAt = "sleeping"
               /\ r.pc = "done"
                    => /\ r.fetched = Rejected(CancelledError)
                       /\ r.outcome.state = "rejected"
                       /\ r.outcome.error.name = "NetworkError"
                       /\ r.outcome.error.message = MsgCancelled
               /\ r.sent = IF r.cancelledAt = "sleeping"
                           THEN Len(r.delays) ELSE Len(r.delays) + 1

C4_Witness ==
    \E c \in Callers :
        /\ call[c].cancelledAt = "sleeping"
        /\ call[c].pc = "done"
        /\ call[c].attempt < call[c].retries
        /\ call[c].fetchCalls = call[c].sent + 1
        /\ call[c].fetched.error.message = MsgCancelled

\* C5: a call makes at most retries+1 attempts, with attempt index in
\* 0..retries; attempts are sequential (the n-th fetch call belongs to
\* attempt index n-1, and a new one starts only from the start of the
\* call or the end of a backoff wait); after attempt index retries the
\* call does not wait for another attempt.
C5_InFlightShape ==
    \A c \in Callers :
        LET r == call[c]
        IN  /\ r.fetchCalls <= (IF r.retries < 0 THEN 0 ELSE r.retries + 1)
            /\ r.attempt >= 0
            /\ r.attempt <= (IF r.retries < 0 THEN 0 ELSE r.retries)
            /\ r.pc \in {"fetching", "parsing"}
                 => r.fetchCalls = r.attempt + 1 /\ Len(r.delays) = r.attempt
            /\ r.pc = "sleeping"
                 => /\ r.fetchCalls = r.attempt + 1
                    /\ Len(r.delays) = r.attempt + 1
                    /\ r.attempt < r.retries

C5_BoundedSequentialAttempts ==
    /\ []C5_InFlightShape
    /\ [][\A c \in Callers :
            call'[c].fetchCalls # call[c].fetchCalls /\ call'[c].gen = call[c].gen
            => /\ call[c].pc = "sleeping"
               /\ call'[c].fetchCalls = call[c].fetchCalls + 1
               /\ call'[c].attempt = call[c].attempt + 1]_vars

C5_Witness ==
    \E c \in Callers :
        /\ call[c].pc = "done"
        /\ call[c].retries = 2
        /\ call[c].fetchCalls = 3
        /\ call[c].attempt = 2
        /\ call[c].fetched.state = "rejected"
        /\ call[c].fetched.error.statusCode = 500

\* C6: every non-2xx response is classified by the fixed table (>= 500
\* NetworkError; 404 NOT_FOUND; 401 and 403 AUTH_ERROR; 429 RATE_LIMIT;
\* any other non-2xx NetworkError), and a 2xx response is never turned
\* into an error: its body is read.
C6_ClassificationTable ==
    \A c \in Callers :
        LET r == call[c]
            e == r.lastError
            s == r.lastStatus
        IN  /\ ((e.isNetworkError \/ e.isBusinessError)
                    /\ ~(s >= 200 /\ s <= 299))
               => /\ s # NoStatus
                  /\ s >= 500 => e.name = "NetworkError" /\ e.statusCode = s
                  /\ s = 404 => e.name = "BusinessError" /\ e.code = "NOT_FOUND"
                  /\ s \in {401, 403}
                       => e.name = "BusinessError" /\ e.code = "AUTH_ERROR"
                  /\ s = 429 => e.name = "BusinessError" /\ e.code = "RATE_LIMIT"
                  /\ (s < 500 /\ s \notin {401, 403, 404, 429})
                       => e.name = "NetworkError" /\ e.statusCode = s
            /\ r.pc = "sleeping" => e.isNetworkError /\ ~(s >= 200 /\ s <= 299)
            /\ r.pc = "parsing" => s >= 200 /\ s <= 299 /\ r.response.status = s
            /\ (s >= 200 /\ s <= 299) => e.statusCode # s

C6_Witness ==
    \E c \in Callers :
        /\ call[c].pc = "done"
        /\ call[c].lastStatus = 403
        /\ call[c].lastError.name = "BusinessError"
        /\ call[c].lastError.code = "AUTH_ERROR"

\* C7: every failure escaping fetchWithRetry or a client function is a
\* NetworkError or a BusinessError, for any option values.
C7_OnlyClassifiedErrorsEscape ==
    \A c \in Callers :
        LET r == call[c]
        IN  r.pc = "done"
            => /\ r.fetched.state = "rejected"
                    => r.fetched.error.name \in {"NetworkError", "BusinessError"}
               /\ r.outcome.state = "rejected"
                    => r.outcome.error.name \in {"NetworkError", "BusinessError"}

----------------------------------------------------------------------------
(* Properties of the weather client *)

StartsCall(c) == call'[c].gen # call[c].gen

\* the cache key of a city name: the name with its letters in lower case
CityKey(name) == <<"weather_">> \o [i \in 1..Len(name) |-> LowerChar(name[i])]

\* the cache holds an entry for the key that has not expired
LiveEntry(k) == k \in DOMAIN weatherCache /\ now <= weatherCache[k].expiresAt

\* a step in which the fetch of a getWeatherByCity call succeeds
WeatherFetchSucceeds(c) ==
    /\ call[c].op = "getWeatherByCity"
    /\ call[c].pc = "parsing"
    /\ call'[c].pc = "done"
    /\ call'[c].outcome.state = "resolved"

\* C8: a getWeatherByCity call with ignoreCache=false that finds no live
\* entry for the city goes to the network and its result is tagged
\* fromCache=false; one that finds a live entry under the lower-cased
\* name (an entry is written only by a successful fetch and lives for
\* the 10-minute TTL from it) returns that payload tagged fromCache=true
\* without any network call.
C8_StartOfCall ==
    \A c \in Callers :
        (StartsCall(c) /\ call'[c].op = "getWeatherByCity"
            /\ ~call'[c].ignoreCache)
        => LET k == CityKey(call'[c].cityName)
           IN  IF LiveEntry(k)
               THEN /\ call'[c].pc = "done"
                    /\ call'[c].outcome =
                          Resolved([payload |-> weatherCache[k].value,
                                    fromCache |-> TRUE])
                    /\ call'[c].fetchCalls = 0
                    /\ call'[c].sent = 0
                    /\ weatherCache' = weatherCache
               ELSE /\ call'[c].fetchCalls = 1
                    /\ call'[c].outcome.state # "resolved"
                    /\ call'[c].signal # "aborted"
                         => call'[c].pc = "fetching" /\ call'[c].sent = 1

C8_EntryOrigin ==
    \A k \in DOMAIN weatherCache' :
        (k \notin DOMAIN weatherCache \/ weatherCache'[k] # weatherCache[k])
        => \E c \in Callers :
                /\ WeatherFetchSucceeds(c)
                /\ CityKey(call[c].cityName) = k
                /\ weatherCache'[k].value = call'[c].outcome.value.payload
                /\ weatherCache'[k].expiresAt = now + 600000

C8_Results ==
    \A c \in Callers :
        LET r == call[c]
        IN  (r.op = "getWeatherByCity" /\ r.pc = "done"
                /\ r.outcome.state = "resolved")
            => /\ r.outcome.value.fromCache = (r.fetchCalls = 0)
               /\ r.fetchCalls > 0
                    => r.outcome.value.payload = r.fetched.value.data

C8_CachedWeather ==
    /\ []C8_Results
    /\ [][C8_StartOfCall /\ C8_EntryOrigin]_vars

C8_Witness ==
    \E c \in Callers :
        /\ call[c].op = "getWeatherByCity"
        /\ call[c].cityName = <<"m", "S">>
        /\ ~call[c].ignoreCache
        /\ call[c].pc = "done"
        /\ call[c].fetchCalls = 0
        /\ call[c].outcome.state = "resolved"
        /\ call[c].outcome.value.fromCache
        /\ now = 600000
        /\ CityKey(<<"M", "s">>) \in DOMAIN weatherCache
        /\ weatherCache[CityKey(<<"M", "s">>)].expiresAt = 600000

\* C9: getWeatherByCity with ignoreCache=true goes to the network even
\* when a live entry exists (the cache is not read); when the fetch
\* succeeds the entry under the same key is replaced by the fresh
\* payload with expiry now + TTL and the result is tagged
\* fromCache=false, so the entry a following ignoreCache=false call
\* finds is the fresh payload.
C9_RefreshStart ==
    \A c \in Callers :
        (StartsCall(c) /\ call'[c].op = "getWeatherByCity"
            /\ call'[c].ignoreCache)
        => /\ call'[c].fetchCalls = 1
           /\ call'[c].outcome.state # "resolved"
           /\ call'[c].signal # "aborted"
                => call'[c].pc = "fetching" /\ call'[c].sent = 1
           /\ weatherCache' = weatherCache

C9_RefreshSuccess ==
    \A c \in Callers :
        WeatherFetchSucceeds(c)
        => LET k == CityKey(call[c].cityName)
               v == call'[c].outcome.value
           IN  /\ v.fromCache = FALSE
               /\ v.payload = call'[c].fetched.value.data
               /\ k \in DOMAIN weatherCache'
               /\ weatherCache'[k] =
                    [value |-> v.payload, expiresAt |-> now + 600000]
               /\ \A j \in DOMAIN weatherCache' \ {k} :
                    j \in DOMAIN weatherCache
                        /\ weatherCache'[j] = weatherCache[j]

C9_RefreshOverwrites == [][C9_RefreshStart /\ C9_RefreshSuccess]_vars

C9_Witness ==
    \E c \in Callers :
        LET r == call[c]
            k == CityKey(r.cityName)
        IN  /\ r.op = "getWeatherByCity"
            /\ r.ignoreCache
            /\ r.pc = "done"
            /\ r.outcome.state = "resolved"
            /\ now = 300000
            /\ k \in DOMAIN weatherCache
            /\ weatherCache[k] = [value |-> r.outcome.value.payload,
                                  expiresAt |-> 900000]

\* the status of the response the error of fetchWithRetry was made from
\* (NoStatus when it was not made from a response)
FailedStatus(r) ==
    IF r.fetched.error.isBusinessError
            \/ r.fetched.error.statusCode # NoStatus
    THEN r.lastStatus ELSE NoStatus

\* what getWeatherByCity surfaces when its fetch failed, with the set of
\* statuses that give API_KEY_ERROR left open
WeatherErrorsRemapped(authStatuses) ==
    \A c \in Callers :
        LET r == call[c]
            fe == r.fetched.error
            oe == r.outcome.error
            s == FailedStatus(r)
        IN  (r.op = "getWeatherByCity" /\ r.pc = "done"
                /\ r.outcome.state = "rejected")
            => /\ oe.code \notin {"NOT_FOUND", "AUTH_ERROR", "RATE_LIMIT"}
               /\ IF fe.message = MsgCancelled
                  THEN oe = CancelledError
                  ELSE IF s = 404
                  THEN oe.name = "BusinessError" /\ oe.code = "CITY_NOT_FOUND"
                  ELSE IF s \in authStatuses
                  THEN oe.name = "BusinessError" /\ oe.code = "API_KEY_ERROR"
                  ELSE IF s = 429
                  THEN /\ oe.name = "BusinessError"
                       /\ oe.code = "RATE_LIMIT_EXCEEDED"
                  ELSE IF fe.name = "NetworkError"
                  THEN oe = fe
                  ELSE /\ oe.name = "NetworkError"
                       /\ oe.cause = fe.message
                       /\ oe # fe

\* C10 as stated: cancellation gives NetworkError(cancelled), 404
\* CITY_NOT_FOUND, 401 API_KEY_ERROR, 429 RATE_LIMIT_EXCEEDED, any other
\* NetworkError is passed through unchanged, anything else is wrapped
\* in a NetworkError; no generic code reaches the caller.
C10_RemapAsStated == WeatherErrorsRemapped({401})

\* C10 (amended): the same, with API_KEY_ERROR for a 401 and for a 403.
C10_RemapAuthStatuses == WeatherErrorsRemapped({401, 403})

C10_Witness ==
    \E c \in Callers :
        /\ call[c].op = "getWeatherByCity"
        /\ call[c].pc = "done"
        /\ call[c].lastStatus = 403
        /\ call[c].fetched.error.code = "AUTH_ERROR"
        /\ call[c].outcome.error.name = "BusinessError"
        /\ call[c].outcome.error.code = "API_KEY_ERROR"

----------------------------------------------------------------------------
(* Properties of the paginated city client *)

\* the request URL of a call, as the server sees it
RequestUrl(r) == <<"cities", r.page, r.limit>>

\* C11: a getCitiesPaginated call sends If-None-Match exactly when useETag
\* is true and the ETag cache holds a validator for the URL of this page
\* and limit, and then the header is that validator; every attempt of the
\* call sends the same header; with useETag=false the request carries no
\* If-None-Match and no step of the call changes the ETag cache.
C11_HeaderAtStart ==
    \A c \in Callers :
        (StartsCall(c) /\ call'[c].op = "getCitiesPaginated")
        => LET r == call'[c]
               url == RequestUrl(r)
           IN  /\ r.ifNoneMatch =
                    IF r.useETag /\ url \in DOMAIN etagCache
                    THEN etagCache[url].etag ELSE NoHeader
               /\ r.useETag /\ url \in DOMAIN etagCache
                    => r.ifNoneMatch \in {"v1", "v2"}
               /\ etagCache' = etagCache

C11_HeaderKept ==
    \A c \in Callers :
        ~StartsCall(c) => call'[c].ifNoneMatch = call[c].ifNoneMatch

C11_WithoutETag ==
    \A c \in Callers :
        (call'[c] # call[c] /\ call'[c].op = "getCitiesPaginated"
            /\ ~call'[c].useETag)
        => /\ call'[c].ifNoneMatch = NoHeader
           /\ etagCache' = etagCache

C11_ConditionalRequest ==
    [][C11_HeaderAtStart /\ C11_HeaderKept /\ C11_WithoutETag]_vars

\* a request for page 2 of 20 carries the validator stored for that URL
\* while the cache holds another validator for page 2 of 10
C11_Witness ==
    \E c \in Callers :
        /\ call[c].op = "getCitiesPaginated"
        /\ call[c].pc = "fetching"
        /\ call[c].useETag
        /\ call[c].page = 2
        /\ call[c].limit = 20
        /\ call[c].ifNoneMatch = "v1"
        /\ <<"cities", 2, 20>> \in DOMAIN etagCache
        /\ <<"cities", 2, 10>> \in DOMAIN etagCache
        /\ etagCache[<<"cities", 2, 10>>].etag = "v2"

----------------------------------------------------------------------------
(* Properties of the batch helper *)

\* the lookup of position i of the batch
Lookup(i) == call[Slots[i]]

\* C12: getWeatherForMultipleCities never rejects; once every lookup has
\* settled it is resolved with one entry per input name, entry i carrying
\* input name i and the outcome of the lookup of name i (success with its
\* data, or failure with the message of its error) whatever the order in
\* which the lookups settled; a lookup that fails leaves the other
\* lookups, the entries already settled and the cache as they were.
C12_Result ==
    /\ batch.state # "rejected"
    /\ batch.state = "running"
         => \E i \in 1..Len(batch.cities) : Lookup(i).pc # "done"
    /\ batch.state = "resolved"
         => /\ Len(batch.result) = Len(batch.cities)
            /\ \A i \in 1..Len(batch.cities) :
                 LET entry == batch.result[i]
                     r == Lookup(i)
                 IN  /\ entry.city = batch.cities[i]
                     /\ r.op = "getWeatherByCity"
                     /\ r.cityName = batch.cities[i]
                     /\ r.pc = "done"
                     /\ entry.success = (r.outcome.state = "resolved")
                     /\ IF entry.success
                        THEN /\ DOMAIN entry = {"success", "city", "data"}
                             /\ entry.data = r.outcome.value
                        ELSE /\ DOMAIN entry = {"success", "city", "error"}
                             /\ entry.error = r.outcome.error.message

\* the step in which the lookup of caller c fails
LookupFails(c) ==
    /\ c \in batch.pending
    /\ call'[c].pc = "done"
    /\ call'[c].outcome.state = "rejected"

\* the step in which the signal shared by the lookups of the batch fires
SharedSignalFires ==
    \E c \in batch.pending :
        call[c].signal = "live" /\ call'[c].signal = "aborted"

C12_FailureIsLocal ==
    \A c \in Callers :
        LookupFails(c)
        => /\ weatherCache' = weatherCache
           /\ \A i \in DOMAIN batch.entries :
                 batch'.entries[i] = batch.entries[i]
           /\ ~SharedSignalFires
                => \A d \in Callers \ {c} : call'[d] = call[d]

C12_BatchLookup == []C12_Result /\ [][C12_FailureIsLocal]_vars

\* the second lookup failed first, the first succeeded later: the entries
\* are in the order of the names
C12_Witness ==
    /\ batch.state = "resolved"
    /\ batch.cities = << <<"M", "s">>, <<"O">> >>
    /\ batch.order = <<2, 1>>
    /\ batch.result[1].city = <<"M", "s">>
    /\ batch.result[1].success
    /\ batch.result[2].city = <<"O">>
    /\ ~batch.result[2].success
    /\ Lookup(2).lastStatus = 404

----------------------------------------------------------------------------
(* Properties of CacheWithTTL *)

\* the step is a call of the method op of a cache object
Called(op) == returned'.gen # returned.gen /\ returned'.op = op

\* key was set, not cleared since, and its TTL has not run out
Live(key) ==
    key \in DOMAIN lastSet /\ now <= lastSet[key].at + cacheTtlMs

\* the Map m without key
Without(m, key) == [k \in DOMAIN m \ {key} |-> m[k]]

\* C13: with TTL T, get(k) returns the value of the latest set(k, v) (not
\* cleared since) as long as no more than T ms have passed since that set;
\* later it returns null and leaves the store without k, and a has(k)
\* then answers false; set stores the value with expiry now + T; the store
\* holds nothing but what was set.
C13_Get ==
    Called("get")
    => LET k == returned'.key
       IN  IF Live(k)
           THEN /\ returned'.value = lastSet[k].value
                /\ ttlCache' = ttlCache
           ELSE /\ returned'.value = Null
                /\ k \notin DOMAIN ttlCache'
                /\ ttlCache' = Without(ttlCache, k)

C13_HasOfExpired ==
    (Called("has") /\ ~Live(returned'.key))
    => /\ returned'.answer = FALSE
       /\ returned'.key \notin DOMAIN ttlCache'

C13_Set ==
    Called("set")
    => LET k == returned'.key
       IN  /\ k \in DOMAIN ttlCache'
           /\ ttlCache'[k] = [value |-> lastSet'[k].value,
                              expiresAt |-> now + cacheTtlMs]
           /\ Without(ttlCache', k) = Without(ttlCache, k)

C13_Store ==
    \A k \in DOMAIN ttlCache :
        /\ k \in DOMAIN lastSet
        /\ ttlCache[k] = [value |-> lastSet[k].value,
                          expiresAt |-> lastSet[k].at + cacheTtlMs]

C13_ExpiryOnRead ==
    []C13_Store /\ [][C13_Get /\ C13_HasOfExpired /\ C13_Set]_vars

\* get found the value "v1" of k1 expired and removed the entry
C13_Witness ==
    /\ returned.op = "get"
    /\ returned.key = "k1"
    /\ returned.value = Null
    /\ "k1" \in DOMAIN lastSet
    /\ lastSet["k1"].value = "v1"
    /\ now > lastSet["k1"].at + cacheTtlMs
    /\ "k1" \notin DOMAIN ttlCache
    /\ "k2" \in DOMAIN ttlCache

\* what get(key) returns at this instant, from what was set
ExpectedGet(key) == IF Live(key) THEN lastSet[key].value ELSE Null

\* the store after a read of key: an expired entry is gone, nothing else
\* has changed
AfterRead(key) ==
    IF key \in DOMAIN ttlCache /\ now > ttlCache[key].expiresAt
    THEN Without(ttlCache, key)
    ELSE ttlCache

\* C14: has(key) answers true exactly when get(key) at the same instant
\* returns something other than null, whatever value is stored and whatever
\* the time, and it changes the store as get does: an expired entry is
\* removed, a live or missing entry leaves the store as it was.
C14_Has ==
    Called("has")
    => /\ returned'.answer = (ExpectedGet(returned'.key) # Null)
       /\ ttlCache' = AfterRead(returned'.key)

C14_GetEffect ==
    Called("get")
    => /\ returned'.value = ExpectedGet(returned'.key)
       /\ ttlCache' = AfterRead(returned'.key)

C14_HasIsGet == [][C14_Has /\ C14_GetEffect]_vars

\* has answered false for the expired entry of k1, which is gone, while
\* the live entry of k2 holding null is still stored
C14_Witness ==
    /\ returned.op = "has"
    /\ returned.key = "k1"
    /\ returned.answer = FALSE
    /\ "k1" \in DOMAIN lastSet
    /\ lastSet["k1"].value = Undefined
    /\ now > lastSet["k1"].at + cacheTtlMs
    /\ "k1" \notin DOMAIN ttlCache
    /\ "k2" \in DOMAIN ttlCache
    /\ ttlCache["k2"].value = Null
    /\ now <= ttlCache["k2"].expiresAt

\* C15: getCacheInfo(key) returns null for a key the store does not hold;
\* for a stored entry, live or expired, it returns isExpired (now is past
\* expiresAt), remainingMs (expiresAt - now, 0 when expired) and
\* remainingSec, the least number of whole seconds that is not less than
\* remainingMs; it leaves the store as it was.
C15_Info ==
    Called("getCacheInfo")
    => LET k == returned'.key
           info == returned'.info
       IN  /\ ttlCache' = ttlCache
           /\ info.found = (k \in DOMAIN ttlCache)
           /\ k \in DOMAIN ttlCache
                => LET left == ttlCache[k].expiresAt - now
                   IN  /\ info.isExpired = (left < 0)
                       /\ info.remainingMs = IF left < 0 THEN 0 ELSE left
                       /\ info.remainingSec * 1000 >= info.remainingMs
                       /\ (info.remainingSec - 1) * 1000 < info.remainingMs

C15_CacheInfo == [][C15_Info]_vars

\* half a second is left of k1 and reported as 1 second, while the
\* expired entry of k2 is still in the store
C15_Witness ==
    /\ returned.op = "getCacheInfo"
    /\ returned.key = "k1"
    /\ returned.info.found
    /\ ~returned.info.isExpired
    /\ returned.info.remainingMs = 500
    /\ returned.info.remainingSec = 1
    /\ "k2" \in DOMAIN ttlCache
    /\ now > ttlCache["k2"].expiresAt

----------------------------------------------------------------------------
(* Properties of ETagCache *)

\* the step is a call of the method op of the ETagCache object
CalledOnETagCache(op) == Called(op) /\ returned'.key \in CacheUrls \cup {""}

\* C16: getETag(u) and getData(u) return the validator and the payload of
\* the latest set(u, ..) since the latest clear(), and null when there is
\* none; has(u) tells whether there is one; the three leave the store as
\* it was; set(u, e, d) replaces the entry of u and leaves the entry of
\* every other URL as it was; after clear() the store is empty.
C16_Reads ==
    /\ CalledOnETagCache("getETag")
         => /\ returned'.value = IF returned'.key \in DOMAIN lastSet
                                 THEN lastSet[returned'.key].etag
                                 ELSE NoHeader
            /\ etagCache' = etagCache
    /\ CalledOnETagCache("getData")
         => /\ returned'.data = IF returned'.key \in DOMAIN lastSet
                                THEN lastSet[returned'.key].data
                                ELSE <<>>
            /\ etagCache' = etagCache
    /\ CalledOnETagCache("has")
         => /\ returned'.answer = (returned'.key \in DOMAIN lastSet)
            /\ etagCache' = etagCache

C16_Writes ==
    /\ CalledOnETagCache("set")
         => LET u == returned'.key
            IN  /\ u \in DOMAIN etagCache'
                /\ etagCache'[u].etag = lastSet'[u].etag
                /\ etagCache'[u].data = lastSet'[u].data
                /\ DOMAIN etagCache' = DOMAIN etagCache \cup {u}
                /\ \A v \in DOMAIN etagCache \ {u} :
                        etagCache'[v] = etagCache[v]
    /\ CalledOnETagCache("clear")
         => DOMAIN etagCache' = {}

C16_ETagCacheAlgebra == [][C16_Reads /\ C16_Writes]_vars

\* getData(u1) returned the payload of the latest set(u1, ..) while u2
\* holds its own entry
C16_Witness ==
    /\ returned.op = "getData"
    /\ returned.key = "u1"
    /\ returned.data = <<1, 2>>
    /\ "u1" \in DOMAIN etagCache
    /\ etagCache["u1"] = [etag |-> "e2", data |-> <<1, 2>>, timestamp |-> 0]
    /\ "u2" \in DOMAIN etagCache
    /\ etagCache["u2"] = [etag |-> "e1", data |-> <<1>>, timestamp |-> 0]

----------------------------------------------------------------------------
(* Properties of the timers and of cancellation *)

\* C17: the timer of an attempt is pending exactly while the fetch of that
\* attempt is pending: every attempt arms one, and none is pending while
\* the body is read, during the backoff wait, or once the call has
\* returned or failed; so when a timer fires, the fetch it aborts is the
\* one of the attempt that armed it.
C17_TimerWhileFetching ==
    \A c \in Callers : call[c].timerArmed <=> call[c].pc = "fetching"

C17_TimerFires ==
    \A c \in Callers :
        (call'[c].timedOut /\ ~call[c].timedOut)
        => /\ call[c].pc = "fetching"
           /\ call[c].timerArmed
           /\ call'[c].attempt = call[c].attempt
           /\ call'[c].fetchCalls = call[c].fetchCalls
           /\ ~call'[c].timerArmed

C17_TimersDisarmed == []C17_TimerWhileFetching /\ [][C17_TimerFires]_vars

\* the second attempt timed out after the first failed on a 5xx: the call
\* is over and no timer is pending
C17_Witness ==
    \E c \in Callers :
        /\ call[c].pc = "done"
        /\ call[c].fetchCalls = 2
        /\ Len(call[c].delays) = 1
        /\ call[c].timedOut
        /\ ~call[c].timerArmed

\* the signal the caller of c supplied fires in this step
SignalFires(c) == call[c].signal = "live" /\ call'[c].signal = "aborted"

\* C18: when the signal supplied to one call fires, the step changes that
\* call only: the calls of the other callers and both caches stay as they
\* were; the cancelled call writes to no cache afterwards; and a call ends
\* with the cancellation error only if its own signal or its own timer
\* fired.
C18_AbortStep ==
    \A c \in Callers :
        SignalFires(c)
        => /\ \A d \in Callers \ {c} : call'[d] = call[d]
           /\ weatherCache' = weatherCache
           /\ etagCache' = etagCache

C18_CancelledCallWritesNothing ==
    \A c \in Callers :
        (call'[c] # call[c] /\ ~StartsCall(c) /\ call'[c].signal = "aborted")
        => /\ weatherCache' = weatherCache
           /\ etagCache' = etagCache

C18_NoLeak ==
    \A d \in Callers :
        (call[d].pc = "done" /\ call[d].outcome.state = "rejected"
            /\ MessageIncludesCancelled(call[d].outcome.error))
        => ~Undisturbed(call[d])

C18_CancellationIsLocal ==
    []C18_NoLeak /\ [][C18_AbortStep /\ C18_CancelledCallWritesNothing]_vars

\* the signal of one lookup fired during its backoff wait while the
\* request of the other caller, which has no signal, is out
C18_Witness ==
    \E c \in Callers : \E d \in Callers \ {c} :
        /\ call[c].signal = "aborted"
        /\ call[c].cancelledAt = "sleeping"
        /\ call[c].pc = "sleeping"
        /\ call[d].pc = "fetching"
        /\ call[d].signal = "none"
        /\ call[d].sent = 2

\* caller d has a lookup of the same city as c in progress
OverlappingLookup(c, d) ==
    /\ d # c
    /\ call[d].op = "getWeatherByCity"
    /\ call[d].pc \in {"fetching", "parsing", "sleeping"}
    /\ CityKey(call[d].cityName) = CityKey(call'[c].cityName)

\* C19: a getWeatherByCity call with ignoreCache=false that starts while
\* another lookup of the same city is in progress and the cache has no
\* live entry for the city calls fetch itself and leaves the other lookup
\* alone; every lookup whose fetch succeeds writes its payload under the
\* key of the city, over whatever an overlapping lookup wrote, and nothing
\* else changes the cache: the entry left is that of the fetch that
\* completed last.
C19_BothFetch ==
    \A c \in Callers : \A d \in Callers :
        (/\ StartsCall(c)
         /\ call'[c].op = "getWeatherByCity"
         /\ ~call'[c].ignoreCache
         /\ ~LiveEntry(CityKey(call'[c].cityName))
         /\ OverlappingLookup(c, d))
        => /\ call'[c].fetchCalls = 1
           /\ call'[c].outcome.state # "resolved"
           /\ call'[c].pc = "fetching" /\ call'[c].sent = 1
           /\ call'[d] = call[d]

C19_LastWriterWins ==
    /\ \A c \in Callers :
            WeatherFetchSucceeds(c)
            => weatherCache'[CityKey(call[c].cityName)] =
                    [value |-> call'[c].fetched.value.data,
                     expiresAt |-> now + 600000]
    /\ weatherCache' # weatherCache
            => \E c \in Callers : WeatherFetchSucceeds(c)

C19_NoSingleFlight == [][C19_BothFetch /\ C19_LastWriterWins]_vars

\* both lookups of the city went to the network and succeeded with
\* different payloads; the cache holds one of them
C19_Witness ==
    /\ \A c \in Callers :
            /\ call[c].op = "getWeatherByCity"
            /\ ~call[c].ignoreCache
            /\ call[c].pc = "done"
            /\ call[c].outcome.state = "resolved"
            /\ ~call[c].outcome.value.fromCache
            /\ call[c].sent >= 1
    /\ call["a"].cityName = call["b"].cityName
    /\ call["a"].outcome.value.payload = "w1"
    /\ call["b"].outcome.value.payload = "w2"
    /\ weatherCache[CityKey(call["a"].cityName)].value = "w1"

\* the attempt in progress is aborted in this step: by its own timer, or by
\* the caller's signal while the fetch or the body read is pending
AttemptAborted(c) ==
    \/ call'[c].timedOut /\ ~call[c].timedOut
    \/ SignalFires(c) /\ call[c].pc \in {"fetching", "parsing"}

\* C20: when an attempt of fetchWithRetry is aborted, by the caller's
\* signal or by its own timer with no cancellation from the caller, the
\* call fails in that step with NetworkError carrying the cancellation
\* message, whatever number of attempts is left, and fetch is not called
\* again; a call whose attempt timed out stays failed that way.
C20_AbortEndsCall ==
    \A c \in Callers :
        AttemptAborted(c)
        => /\ call'[c].pc = "done"
           /\ call'[c].fetched = Rejected(CancelledError)
           /\ call'[c].fetched.error.name = "NetworkError"
           /\ call'[c].fetchCalls = call[c].fetchCalls
           /\ call'[c].delays = call[c].delays

C20_TimedOut ==
    \A c \in Callers :
        call[c].timedOut
        => /\ call[c].pc = "done"
           /\ call[c].fetched = Rejected(CancelledError)
           /\ Len(call[c].delays) = call[c].fetchCalls - 1

----------------------------------------------------------------------------
(* Properties of the end of fetchWithRetry *)

\* C21: a call of fetchWithRetry that fails on an error other than a
\* cancellation fails with that error unchanged when it is a NetworkError
\* or a BusinessError, and otherwise with a NetworkError that carries the
\* message of that error and names the number of attempts the call made
\* (its calls of fetch).
C21_MessageNamesAttemptsMade ==
    \A c \in Callers :
        LET r == call[c]
        IN  (/\ r.pc = "done"
             /\ r.fetched.state = "rejected"
             /\ r.lastError # NoError
             /\ ~IsCancellation(r.signal, r.lastError))
            => IF r.lastError.isNetworkError \/ r.lastError.isBusinessError
               THEN r.fetched.error = r.lastError
               ELSE /\ r.fetched.error.name = "NetworkError"
                    /\ r.fetched.error.cause = r.lastError.message
                    /\ r.fetched.error.named = r.fetchCalls

----------------------------------------------------------------------------
(* Properties of the module-level ETag cache *)

\* C22: every entry of the ETag cache holds, under the URL of a page, a
\* non-empty validator and the PageResult of that page tagged
\* fromCache=false, cacheHit=false; an entry is written only by a
\* getCitiesPaginated call with useETag=true whose 2xx response for that
\* URL carried the validator, and it is the result of that call; the only
\* other change is clearETagCache(); and a call for a URL without an
\* entry sends no If-None-Match.
C22_Entries ==
    \A u \in DOMAIN etagCache :
        LET entry == etagCache[u]
        IN  /\ entry.etag \in {"v1", "v2"}
            /\ u = <<"cities", entry.data.page, entry.data.limit>>
            /\ entry.data.fromCache = FALSE
            /\ entry.data.cacheHit = FALSE
            /\ entry.data.data \in CityLists

C22_Written ==
    etagCache' # etagCache
    => \/ DOMAIN etagCache' = {}
       \/ \E c \in Callers :
            LET r == call[c]
                u == RequestUrl(r)
            IN  /\ r.op = "getCitiesPaginated"
                /\ r.pc = "parsing"
                /\ r.useETag
                /\ r.response.status >= 200 /\ r.response.status <= 299
                /\ r.response.etag # NoHeader
                /\ call'[c].outcome.state = "resolved"
                /\ DOMAIN etagCache' = DOMAIN etagCache \cup {u}
                /\ etagCache'[u] = [etag |-> r.response.etag,
                                    data |-> call'[c].outcome.value,
                                    timestamp |-> now]
                /\ \A v \in DOMAIN etagCache \ {u} :
                        etagCache'[v] = etagCache[v]

C22_AbsentMeansUnconditional ==
    \A c \in Callers :
        (/\ StartsCall(c)
         /\ call'[c].op = "getCitiesPaginated"
         /\ RequestUrl(call'[c]) \notin DOMAIN etagCache)
        => call'[c].ifNoneMatch = NoHeader

C22_ETagCacheInvariant ==
    []C22_Entries /\ [][C22_Written /\ C22_AbsentMeansUnconditional]_vars

\* page 2 has an entry, page 1 has none, and the request for page 1 with
\* useETag=true is out without If-None-Match
C22_Witness ==
    /\ <<"cities", 2, 10>> \in DOMAIN etagCache
    /\ etagCache[<<"cities", 2, 10>>].etag = "v2"
    /\ <<"cities", 1, 10>> \notin DOMAIN etagCache
    /\ \E c \in Callers :
            /\ call[c].op = "getCitiesPaginated"
            /\ call[c].page = 1
            /\ call[c].useETag
            /\ call[c].pc = "fetching"
            /\ call[c].ifNoneMatch = NoHeader

----------------------------------------------------------------------------
(* Properties of what fetchWithRetry retries *)

\* the attempt in progress fails in this step on an error of the platform:
\* fetch rejecting for want of connectivity, or a 2xx body that is not JSON
RawFailure(c) ==
    /\ call[c].pc \in {"fetching", "parsing"}
    /\ call'[c] # call[c]
    /\ ~StartsCall(c)
    /\ call'[c].lastError \in {FetchTypeError, JsonSyntaxError}
    /\ call'[c].signal # "aborted"

\* C23: fetchWithRetry enters a backoff wait only after a response with a
\* status outside 2xx that was classified as a NetworkError; an attempt
\* that fails on a connectivity error of fetch or on a 2xx body that is not
\* JSON ends the call in that step, without a backoff wait and without a
\* further call of fetch, with a NetworkError wrapping the message of the
\* failure, whatever the retries value.
C23_RetriedAfterStatus ==
    \A c \in Callers :
        (call'[c].pc = "sleeping" /\ call[c].pc # "sleeping")
        => /\ call[c].pc = "fetching"
           /\ ~ResponseOk(call'[c].lastStatus)
           /\ call'[c].lastStatus \in Statuses
           /\ call'[c].lastError.name = "NetworkError"
           /\ call'[c].lastError.statusCode = call'[c].lastStatus

C23_RawFailureEndsCall ==
    \A c \in Callers :
        RawFailure(c)
        => /\ call'[c].pc = "done"
           /\ call'[c].fetched.state = "rejected"
           /\ call'[c].fetched.error.name = "NetworkError"
           /\ call'[c].fetched.error # call'[c].lastError
           /\ call'[c].fetched.error.cause = call'[c].lastError.message
           /\ call'[c].delays = call[c].delays
           /\ call'[c].fetchCalls = call[c].fetchCalls

----------------------------------------------------------------------------
(* Properties of searchCities *)

\* a step of a searchCities call of caller c
SearchStep(c) == call'[c].op = "searchCities" /\ call'[c] # call[c]

\* C29: a searchCities call that fails fails with a NetworkError, never
\* with a BusinessError: a NetworkError of fetchWithRetry is re-thrown as
\* it is, and a BusinessError (404, 401, 403, 429) is replaced by a new
\* NetworkError that carries its message and neither code nor status; the
\* call makes at most two calls of fetch; none of its steps changes the
\* weather cache or the ETag cache.
C29_Failure ==
    \A c \in Callers :
        LET r == call[c]
        IN  r.op = "searchCities"
            => /\ r.fetchCalls <= SEARCH_RETRIES + 1
               /\ (r.pc = "done" /\ r.outcome.state = "rejected")
                  => /\ r.outcome.error.name = "NetworkError"
                     /\ r.outcome.error.isNetworkError
                     /\ ~r.outcome.error.isBusinessError
                     /\ r.outcome.error.code = NoCode
                     /\ r.fetched.error.isNetworkError
                        => r.outcome.error = r.fetched.error
                     /\ r.fetched.error.isBusinessError
                        => r.outcome.error =
                             NetworkError(MsgSearch, NoStatus,
                                          r.fetched.error.message, 0)

C29_CachesUntouched ==
    \A c \in Callers :
        SearchStep(c) => UNCHANGED <<weatherCache, etagCache>>

C29_SearchFailsAsNetworkError ==
    []C29_Failure /\ [][C29_CachesUntouched]_vars

\* the server answered 404 to a search: fetchWithRetry threw the NOT_FOUND
\* BusinessError after one call of fetch and searchCities threw a
\* NetworkError with its message
C29_Witness ==
    \E c \in Callers :
        /\ call[c].op = "searchCities"
        /\ call[c].pc = "done"
        /\ call[c].lastStatus = 404
        /\ call[c].fetchCalls = 1
        /\ call[c].fetched.error.code = "NOT_FOUND"
        /\ call[c].outcome.error.name = "NetworkError"
        /\ call[c].outcome.error.cause = MsgNotFound

----------------------------------------------------------------------------
(* Properties of getWeatherByCity calls that fail *)

\* a step in which a getWeatherByCity call of caller c ends with an error
EndsFailed(c) ==
    /\ call'[c].op = "getWeatherByCity"
    /\ call'[c] # call[c]
    /\ call'[c].pc = "done"
    /\ call'[c].outcome.state = "rejected"

\* a step of a getWeatherByCity call after its start, other than the one in
\* which its fetch succeeds
LaterStep(c) ==
    /\ call[c].op = "getWeatherByCity"
    /\ ~StartsCall(c)
    /\ call'[c] # call[c]
    /\ ~WeatherFetchSucceeds(c)

\* C24 as stated: a getWeatherByCity call that fails or is cancelled never
\* changes the weather cache: neither the step in which it ends with an
\* error nor any step after its start other than a successful fetch
\* changes the cache.
C24_FailedCallNeverChangesCache ==
    [][\A c \in Callers :
          (EndsFailed(c) \/ LaterStep(c)) => UNCHANGED weatherCache]_vars

\* the start of a getWeatherByCity call changes the cache in one way only:
\* with ignoreCache=false it removes the entry of its own city when that
\* entry has expired
C24_StartEvictsExpiredOnly ==
    \A c \in Callers :
        (StartsCall(c) /\ call'[c].op = "getWeatherByCity")
        => LET k == CityKey(call'[c].cityName)
           IN  IF /\ ~call'[c].ignoreCache
                  /\ k \in DOMAIN weatherCache
                  /\ now > weatherCache[k].expiresAt
               THEN weatherCache' =
                        [j \in DOMAIN weatherCache \ {k} |-> weatherCache[j]]
               ELSE UNCHANGED weatherCache

C24_OnlySuccessWrites ==
    \A c \in Callers : LaterStep(c) => UNCHANGED weatherCache

\* after a refresh that failed, the next call for the city with
\* ignoreCache=false is served the entry, if it has not expired
C24_ServedAfterFailedRefresh ==
    \A c \in Callers :
        LET k == CityKey(call[c].cityName)
        IN  (/\ call[c].op = "getWeatherByCity"
             /\ call[c].ignoreCache
             /\ call[c].pc = "done"
             /\ call[c].outcome.state = "rejected"
             /\ LiveEntry(k)
             /\ StartsCall(c)
             /\ call'[c].op = "getWeatherByCity"
             /\ CityKey(call'[c].cityName) = k
             /\ ~call'[c].ignoreCache)
            => /\ call'[c].pc = "done"
               /\ call'[c].outcome =
                      Resolved([payload |-> weatherCache[k].value,
                                fromCache |-> TRUE])
               /\ UNCHANGED weatherCache

\* C24: a getWeatherByCity call that fails or is cancelled never writes an
\* entry and never changes or removes an entry that has not expired: the
\* cache is written only by the step in which the fetch succeeds, and the
\* only other change a call makes is the removal, by the read at its start
\* with ignoreCache=false, of the expired entry of its own city.  When a
\* refresh with ignoreCache=true fails the entry of the city is as it was
\* and the next ignoreCache=false call within its TTL is served it.
C24_FailedCallWritesNothing ==
    [][/\ C24_StartEvictsExpiredOnly
       /\ C24_OnlySuccessWrites
       /\ C24_ServedAfterFailedRefresh]_vars

\* a refresh with ignoreCache=true has failed on a status 500 after three
\* calls of fetch and the entry of its city is live
C24_Witness ==
    \E c \in Callers :
        /\ call[c].op = "getWeatherByCity"
        /\ call[c].ignoreCache
        /\ call[c].pc = "done"
        /\ call[c].outcome.state = "rejected"
        /\ call[c].lastStatus = 500
        /\ call[c].fetchCalls = WEATHER_RETRIES + 1
        /\ LiveEntry(CityKey(call[c].cityName))

----------------------------------------------------------------------------
(* Properties of getWeatherByCity given a signal that has already fired *)

\* a getWeatherByCity call starts with a signal that is already aborted
StartsCancelled(c) ==
    /\ StartsCall(c)
    /\ call'[c].op = "getWeatherByCity"
    /\ call'[c].signal = "aborted"

\* C25: a getWeatherByCity call with ignoreCache=false whose city has an
\* entry that has not expired returns the payload of the entry tagged
\* fromCache=true, without calling fetch, even when it is given a signal
\* that is already aborted; the signal is looked at on the network path
\* only, where such a call fails as cancelled without sending a request.
C25_HitDespiteSignal ==
    \A c \in Callers :
        StartsCancelled(c)
        => LET k == CityKey(call'[c].cityName)
           IN  IF ~call'[c].ignoreCache /\ LiveEntry(k)
               THEN /\ call'[c].pc = "done"
                    /\ call'[c].outcome =
                           Resolved([payload |-> weatherCache[k].value,
                                     fromCache |-> TRUE])
                    /\ call'[c].fetchCalls = 0
               ELSE /\ call'[c].pc = "done"
                    /\ call'[c].outcome = Rejected(CancelledError)
                    /\ call'[c].fetchCalls = 1
                    /\ call'[c].sent = 0

C25_CancelledCallServedFromCache == [][C25_HitDespiteSignal]_vars

\* a call given an aborted signal has been served from the cache
C25_Witness ==
    \E c \in Callers :
        /\ call[c].op = "getWeatherByCity"
        /\ call[c].signal = "aborted"
        /\ ~call[c].ignoreCache
        /\ call[c].pc = "done"
        /\ call[c].outcome.state = "resolved"
        /\ call[c].outcome.value.fromCache
        /\ call[c].fetchCalls = 0

----------------------------------------------------------------------------
(* Properties of get and getCacheInfo taken together *)

\* C30: for a stored entry whose value is not null, getCacheInfo(k) reports
\* isExpired exactly when get(k) at the same instant returns null, and that
\* is when more than the TTL has passed since the set (strictly): at
\* exactly set time + TTL the entry is reported as not expired with
\* remainingMs = 0 and get returns its value.
C30_InfoAgreesWithGet ==
    Called("getCacheInfo")
    => LET k == returned'.key
           info == returned'.info
       IN  (k \in DOMAIN ttlCache /\ ttlCache[k].value # Null)
           => /\ info.found
              /\ info.isExpired = (TTLGetValue(ttlCache, k, now) = Null)
              /\ info.isExpired = (ExpectedGet(k) = Null)
              /\ info.isExpired = (now > lastSet[k].at + cacheTtlMs)
              /\ now = lastSet[k].at + cacheTtlMs
                 => /\ ~info.isExpired
                    /\ info.remainingMs = 0
                    /\ TTLGetValue(ttlCache, k, now) = lastSet[k].value

C30_GetAsExpected ==
    Called("get")
    => returned'.value = IF returned'.key \in DOMAIN lastSet
                            /\ now <= lastSet[returned'.key].at + cacheTtlMs
                         THEN lastSet[returned'.key].value
                         ELSE Null

C30_GetAndInfoAgree == [][C30_InfoAgreesWithGet /\ C30_GetAsExpected]_vars

\* getCacheInfo was called at exactly the expiry time of a stored value
C30_Witness ==
    /\ returned.op = "getCacheInfo"
    /\ returned.key \in DOMAIN ttlCache
    /\ ttlCache[returned.key].value \in {"v1", "v2"}
    /\ now = ttlCache[returned.key].expiresAt
    /\ now = lastSet[returned.key].at + cacheTtlMs
    /\ returned.info.found
    /\ ~returned.info.isExpired
    /\ returned.info.remainingMs = 0

----------------------------------------------------------------------------
(* Properties of the page *)

\* the lookup of caller c was made by handleSearch, has not settled and
\* its signal has not fired
LiveSearch(c) ==
    /\ view.searchOf[c] > 0
    /\ call[c].pc \notin {"idle", "done"}
    /\ call[c].signal # "aborted"

C26_OneLiveSearch ==
    \A c, d \in Callers : (LiveSearch(c) /\ LiveSearch(d)) => c = d

C26_ShownIsLatest ==
    (view'.shown # view.shown /\ view'.shown.seq > 0)
    => view'.shown.seq = view'.started

\* C26: at no time are two lookups made by handleSearch both in flight and
\* both not cancelled, and whenever the page shows something about a
\* search (skeleton, weather, empty state, error) it is about the search
\* started last: a search that another one superseded never updates the
\* display.
C26_LatestSearchOnly ==
    []C26_OneLiveSearch /\ [][C26_ShownIsLatest]_vars

\* the requests made by loadMoreCities that have not settled
LoadsInFlight == {c \in view.loads : call[c].pc \notin {"idle", "done"}}

\* a step in which loadMoreCities makes the request of caller c
LoadStarts(c) == c \notin view.loads /\ c \in view'.loads

\* a step in which the request of caller c made by loadMoreCities settles
LoadSettles(c) == c \in view.loads /\ call'[c].pc = "done"

C27_OneRequest ==
    /\ Cardinality(LoadsInFlight) <= 1
    /\ view.loads = LoadsInFlight
    /\ state.infiniteScroll.isLoading = (view.loads # {})

C27_Steps ==
    LET scroll == state.infiniteScroll
    IN  /\ \A c \in Callers :
            /\ LoadStarts(c)
               => /\ scroll.hasMore /\ ~scroll.isLoading
                  /\ call'[c].op = "getCitiesPaginated"
                  /\ call'[c].page = scroll.currentPage + 1
                  /\ call'[c].pc = "fetching"
            /\ LoadSettles(c)
               => /\ ~state'.infiniteScroll.isLoading
                  /\ IF call'[c].outcome.state = "resolved"
                     THEN /\ state'.infiniteScroll.currentPage =
                                scroll.currentPage + 1
                          /\ state'.infiniteScroll.hasMore =
                                call'[c].outcome.value.hasMore
                     ELSE /\ state'.infiniteScroll.currentPage =
                                scroll.currentPage
                          /\ state'.infiniteScroll.hasMore = scroll.hasMore
        /\ (state'.infiniteScroll.currentPage # scroll.currentPage
             \/ state'.infiniteScroll.hasMore # scroll.hasMore)
           => \E c \in Callers :
                  LoadSettles(c) /\ call'[c].outcome.state = "resolved"

\* C27: at most one request made by loadMoreCities is in flight at a time,
\* and isLoading is true exactly while one is; a request is made only with
\* hasMore true and isLoading false, for page currentPage + 1; when it
\* settles isLoading is false again, currentPage is one more and hasMore
\* is the one of the result if it succeeded, and both are as they were if
\* it failed; nothing else changes currentPage or hasMore.
C27_GuardedPaging == []C27_OneRequest /\ [][C27_Steps]_vars

\* page 2 is being requested again after a request for it failed
C27_Witness ==
    \E c, d \in Callers :
        /\ c # d
        /\ state.infiniteScroll.currentPage = 1
        /\ call[d].op = "getCitiesPaginated"
        /\ call[d].pc = "done"
        /\ call[d].page = 2
        /\ call[d].outcome.state = "rejected"
        /\ c \in view.loads
        /\ call[c].pc = "fetching"
        /\ call[c].page = 2

----------------------------------------------------------------------------
(* Properties of debounce *)

\* a step in which fn is invoked
Invokes == Len(debounced'.invocations) > Len(debounced.invocations)

\* a step in which the wrapper is called
WrapperCalled == debounced'.calls > debounced.calls

C28_InvokedWhenQuiet ==
    Invokes
    => /\ debounced.idle >= debounced.ms
       /\ debounced'.invocations =
             Append(debounced.invocations, debounced.lastArgs)
       /\ debounced'.timers = {}

C28_Followed == (debounced.timers # {}) ~> (debounced.timers = {})

\* C28 as stated: fn is invoked only when ms have passed since the latest
\* call of the wrapper; every burst of calls, each less than ms after the
\* previous one, has led to exactly one invocation of fn, with the
\* arguments of its last call, by the time the next burst begins; every
\* call is eventually followed by an invocation.
C28_OneInvocationPerBurst ==
    /\ [][/\ C28_InvokedWhenQuiet
          /\ (WrapperCalled /\ debounced'.bursts > debounced.bursts
                            /\ debounced.bursts > 0)
             => /\ debounced.invokedInBurst = 1
                /\ debounced.invocations[Len(debounced.invocations)] =
                      debounced.lastArgs]_vars
    /\ C28_Followed

C28_AtMostOnce ==
    /\ debounced.invokedInBurst <= 1
    /\ Cardinality(debounced.timers) <= 1
    /\ Len(debounced.invocations) <= debounced.bursts
    /\ debounced.calls > 0
       => (debounced.invokedInBurst = 1) = (debounced.timers = {})
    /\ \A t \in debounced.timers :
          /\ t.id = debounced.timeoutId
          /\ t.args = debounced.lastArgs
          /\ t.left = debounced.ms - debounced.idle

\* C28: fn is invoked only when at least ms have passed since the latest
\* call of the wrapper, with the arguments of that call, and leaves no
\* timer waiting; a burst leads to at most one invocation, and to one as
\* soon as the callback of the timer of its last call has run, which a
\* call of the wrapper that comes before it prevents; once calls stop a
\* waiting timer is eventually followed by the invocation.
C28_DebouncedInvocation ==
    /\ []C28_AtMostOnce
    /\ [][C28_InvokedWhenQuiet]_vars
    /\ C28_Followed

\* three calls in one burst were followed by one invocation
C28_Witness ==
    /\ debounced.calls = 3
    /\ debounced.bursts = 1
    /\ debounced.timers = {}
    /\ debounced.invocations = <<debounced.lastArgs>>

====
